---------------------------- MODULE Spec2Model ----------------------------
(***************************************************************************)
(* Model of the HSA application decision engine                            *)
(* (backend/services/decision_engine.py, backend/schemas/decision.py,     *)
(* backend/api/v1/decisions.py).                                           *)
(*                                                                         *)
(* Numbers that are Python floats in the source (confidences, thresholds,  *)
(* risk scores) are exact rationals [n, d] in lowest terms.  Python strings*)
(* are sequences of one-character strings; a dictionary value is a record  *)
(* [kind, s] whose kind tells a missing key ("absent") from a key bound to *)
(* None ("none") and from a key bound to a string ("str").                 *)
(***************************************************************************)
EXTENDS Integers, Sequences, FiniteSets, TLC

(***************************************************************************)
(* Bounds of the model.                                                    *)
(***************************************************************************)
\* calendar days 0..MaxDay are the values of date.today() and of expiry dates
MaxDay == 1
\* most document fields that differ from the declared data in one application
MaxDiscrepancies == 1
\* longest list of validation results handed to _make_decision on its own
MaxValidations == 2
\* most log_decision calls in one run of the audit service
MaxLogged == 2
\* most chunk ids a vector store is called with directly
MaxChunks == 2
\* largest k of a similarity search
MaxK == 2
\* chunk_size and overlap of the service's DocumentChunker, in characters:
\* the documents of the model are a few characters long
ChunkSize == 3
Overlap == 1
\* most concurrent answer_question calls
MaxTasks == 2
\* the clock runs from 0 to MaxTime milliseconds
MaxTime == 1
\* longest list of risk factors passed to _calculate_risk_score
MaxFactors == 2
\* longest document passed to chunk_document on its own
MaxText == 5
\* longest sentence and largest max_length passed to _create_excerpt
MaxExcerpt == 23

(***************************************************************************)
(* Rational arithmetic.                                                    *)
(***************************************************************************)
RECURSIVE GCD(_, _)
GCD(a, b) ==
    IF b = 0 THEN a ELSE GCD(b, a % b)

Q(n, d) ==
    IF n = 0 THEN [n |-> 0, d |-> 1]
    ELSE LET g == GCD(n, d) IN [n |-> n \div g, d |-> d \div g]

QLe(a, b) ==
    a.n * b.d <= b.n * a.d

QLt(a, b) ==
    a.n * b.d < b.n * a.d

QGe(a, b) ==
    QLe(b, a)

QGt(a, b) ==
    QLt(b, a)

QAdd(a, b) ==
    Q(a.n * b.d + b.n * a.d, a.d * b.d)

QSub(a, b) ==
    Q(a.n * b.d - b.n * a.d, a.d * b.d)

QMul(a, b) ==
    Q(a.n * b.n, a.d * b.d)

QDiv(a, b) ==
    Q(a.n * b.d, a.d * b.n)

QMin(a, b) ==
    IF QLe(a, b) THEN a ELSE b

Zero ==
    Q(0, 1)

One ==
    Q(1, 1)

(***************************************************************************)
(* Python string operations used by the field matchers.                    *)
(***************************************************************************)
UpperChars ==
    <<"A", "B", "C", "D", "E", "F", "G", "H", "I", "J", "K", "L", "M",
      "N", "O", "P", "Q", "R", "S", "T", "U", "V", "W", "X", "Y", "Z">>

LowerChars ==
    <<"a", "b", "c", "d", "e", "f", "g", "h", "i", "j", "k", "l", "m",
      "n", "o", "p", "q", "r", "s", "t", "u", "v", "w", "x", "y", "z">>

LowerChar(c) ==
    IF \E i \in 1..Len(UpperChars) : UpperChars[i] = c
    THEN LowerChars[CHOOSE i \in 1..Len(UpperChars) : UpperChars[i] = c]
    ELSE c

\* str.lower()
Lower(s) ==
    [i \in 1..Len(s) |-> LowerChar(s[i])]

\* str.replace(pat, ""): leftmost non-overlapping occurrences are removed
RECURSIVE RemoveAll(_, _)
RemoveAll(s, pat) ==
    IF Len(s) < Len(pat) THEN s
    ELSE IF SubSeq(s, 1, Len(pat)) = pat
         THEN RemoveAll(SubSeq(s, Len(pat) + 1, Len(s)), pat)
         ELSE <<Head(s)>> \o RemoveAll(Tail(s), pat)

\* the characters str.strip() and str.split() take for white space
Whitespace ==
    {" ", "\t", "\n", "\r"}

RECURSIVE LStrip(_)
LStrip(s) ==
    IF s # <<>> /\ Head(s) \in Whitespace THEN LStrip(Tail(s)) ELSE s

RECURSIVE RStrip(_)
RStrip(s) ==
    IF s # <<>> /\ s[Len(s)] \in Whitespace
    THEN RStrip(SubSeq(s, 1, Len(s) - 1))
    ELSE s

\* str.strip()
Strip(s) ==
    RStrip(LStrip(s))

\* the first whitespace-delimited word of a string that starts with a non-blank
RECURSIVE FirstWord(_)
FirstWord(s) ==
    IF s = <<>> \/ Head(s) \in Whitespace THEN <<>>
    ELSE <<Head(s)>> \o FirstWord(Tail(s))

\* set(str.split())
RECURSIVE Words(_)
Words(s) ==
    LET t == LStrip(s) IN
    IF t = <<>> THEN {}
    ELSE LET w == FirstWord(t) IN
         {w} \cup Words(SubSeq(t, Len(w) + 1, Len(t)))

\* needle in hay
Contains(hay, needle) ==
    \E i \in 0..(Len(hay) - Len(needle)) :
        SubSeq(hay, i + 1, i + Len(needle)) = needle

\* set(str)
CharSet(s) ==
    {s[i] : i \in 1..Len(s)}

Max(a, b) ==
    IF a >= b THEN a ELSE b


(***************************************************************************)
(* Dictionary values and the strings of the model's universe.              *)
(***************************************************************************)
Absent ==
    [kind |-> "absent", s |-> <<>>]

None ==
    [kind |-> "none", s |-> <<>>]

Str(s) ==
    [kind |-> "str", s |-> s]

\* dict.get(key): a missing key reads as None
Get(d, key) ==
    IF d.items[key].kind = "absent" THEN None ELSE d.items[key]

\* dict.get(key, ""): only a missing key reads as the default
GetOrEmpty(d, key) ==
    IF d.items[key].kind = "absent" THEN Str(<<>>) ELSE d.items[key]

\* an Optional[Dict] field: None, or a dictionary with its items
NoDict ==
    [kind |-> "none"]

Dict(items) ==
    [kind |-> "dict", items |-> items]

\* truth value of an Optional[Dict]: None and the empty dictionary are false
DictTruthy(d) ==
    d.kind = "dict" /\ \E key \in DOMAIN d.items : d.items[key].kind # "absent"

\* truth value of a dictionary value: None and "" are false
Truthy(v) ==
    v.kind = "str" /\ v.s # <<>>

JohnDoe ==
    <<"J", "o", "h", "n", " ", "D", "o", "e">>

JohnADoe ==
    <<"J", "o", "h", "n", " ", "A", ".", " ", "D", "o", "e">>

JaneSmith ==
    <<"J", "a", "n", "e", " ", "S", "m", "i", "t", "h">>

Dob1990 ==
    <<"1", "9", "9", "0", "-", "0", "1", "-", "1", "5">>

Dob1985 ==
    <<"1", "9", "8", "5", "-", "0", "6", "-", "2", "0">>

MainSt ==
    <<"1", "2", "3", " ", "M", "a", "i", "n", " ", "S", "t">>

MainStreet ==
    <<"1", "2", "3", " ", "M", "a", "i", "n", " ", "S", "t", "r", "e", "e", "t">>

OakAve ==
    <<"4", "5", "6", " ", "O", "a", "k", " ", "A", "v", "e">>

Anytown ==
    <<"A", "n", "y", "t", "o", "w", "n">>

OtherCity ==
    <<"O", "t", "h", "e", "r", " ", "C", "i", "t", "y">>

StateCA ==
    <<"C", "A">>

StateNY ==
    <<"N", "Y">>

Zip12345 ==
    <<"1", "2", "3", "4", "5">>

Zip67890 ==
    <<"6", "7", "8", "9", "0">>

AcmeCorporation ==
    <<"A", "c", "m", "e", " ", "C", "o", "r", "p", "o", "r", "a", "t", "i", "o", "n">>

AcmeCorporationInc ==
    AcmeCorporation \o <<" ", "I", "n", "c", ".">>

AcmeHoldingsGroup ==
    <<"A", "c", "m", "e", " ", "H", "o", "l", "d", "i", "n", "g", "s", " ", "G", "r", "o", "u", "p">>

TechCompany ==
    <<"T", "e", "c", "h", " ", "C", "o", "m", "p", "a", "n", "y">>

\* an expiry string that is not in the format %Y-%m-%d
SlashDate ==
    <<"1", "2", "/", "3", "1", "/", "2", "0", "2", "5">>

Days ==
    0..MaxDay

Digits ==
    <<"0", "1", "2", "3", "4", "5", "6", "7", "8", "9">>

\* the %Y-%m-%d string of calendar day d: day 0 is 2025-01-01
IsoOf(d) ==
    <<"2", "0", "2", "5", "-", "0", "1", "-", "0", Digits[d + 2]>>

\* datetime.strptime(s, "%Y-%m-%d").date(): the day a well-formed string
\* denotes; any other string raises ValueError
Strptime(s) ==
    IF \E d \in Days : IsoOf(d) = s
    THEN [ok |-> TRUE, day |-> CHOOSE d \in Days : IsoOf(d) = s]
    ELSE [ok |-> FALSE, day |-> 0]

(***************************************************************************)
(* Schemas (backend/schemas/decision.py).                                  *)
(***************************************************************************)
APPROVE == "approve"
REJECT == "reject"
MANUAL_REVIEW == "manual_review"

DecisionType ==
    {APPROVE, REJECT, MANUAL_REVIEW}

NAME_MATCH == "name_match"
DOB_MATCH == "dob_match"
ADDRESS_MATCH == "address_match"
ID_EXPIRY == "id_expiry"
DOCUMENT_QUALITY == "document_quality"
EMPLOYER_MATCH == "employer_match"

ValidationType ==
    {NAME_MATCH, DOB_MATCH, ADDRESS_MATCH, ID_EXPIRY, DOCUMENT_QUALITY,
     EMPLOYER_MATCH}

ValidationResult(field_name, validation_type, is_valid, confidence, details) ==
    [field_name |-> field_name, validation_type |-> validation_type,
     is_valid |-> is_valid, confidence |-> confidence, details |-> details]

\* the field defaults of DecisionConfig
DecisionConfig ==
    [name_match_threshold |-> Q(7, 10), auto_approve_threshold |-> Q(1, 10),
     manual_review_threshold |-> Q(3, 10), expired_id_auto_reject |-> TRUE]

(***************************************************************************)
(* The field matchers of DecisionEngine.                                   *)
(***************************************************************************)
\* _check_id_expiry with the boundary day excluded (expiry_date > today)
_check_id_expiry_exclusive(government_id_data, today_) ==
    LET expiry_date_str == Get(government_id_data, "expiry_date") IN
    IF ~Truthy(expiry_date_str)
    THEN ValidationResult("id_expiry", ID_EXPIRY, FALSE, Zero,
                          "No expiry date found on ID")
    ELSE LET parsed == Strptime(expiry_date_str.s) IN
         IF parsed.ok
         THEN ValidationResult("id_expiry", ID_EXPIRY, parsed.day > today_,
                               One, "ID expires on")
         ELSE ValidationResult("id_expiry", ID_EXPIRY, FALSE, Zero,
                               "Invalid expiry date format")

\* _check_id_expiry: a missing or empty expiry date and a string that does
\* not parse are invalid with confidence 0; a date is valid from today on
_check_id_expiry(government_id_data, today_) ==
    LET expiry_date_str == Get(government_id_data, "expiry_date") IN
    IF ~Truthy(expiry_date_str)
    THEN ValidationResult("id_expiry", ID_EXPIRY, FALSE, Zero,
                          "No expiry date found on ID")
    ELSE LET parsed == Strptime(expiry_date_str.s) IN
         IF parsed.ok
         THEN ValidationResult("id_expiry", ID_EXPIRY, parsed.day >= today_,
                               One, "ID expires on")
         ELSE ValidationResult("id_expiry", ID_EXPIRY, FALSE, Zero,
                               "Invalid expiry date format")

\* the cleaning both names go through before they are compared
CleanName(name) ==
    Strip(RemoveAll(RemoveAll(Lower(name), <<",">>), <<".">>))

\* _validate_name_match that accepts a subset in one direction only
_validate_name_match_one_way(app_name, doc_name, cfg) ==
    IF ~Truthy(app_name) \/ ~Truthy(doc_name)
    THEN ValidationResult("full_name", NAME_MATCH, FALSE, Zero,
                          "Missing name data")
    ELSE LET app_clean == CleanName(app_name.s)
             doc_clean == CleanName(doc_name.s) IN
         IF app_clean = doc_clean
         THEN ValidationResult("full_name", NAME_MATCH, TRUE, One, "Exact match")
         ELSE LET app_words == Words(app_clean)
                  doc_words == Words(doc_clean) IN
              IF app_words \subseteq doc_words
              THEN ValidationResult("full_name", NAME_MATCH,
                                    QGe(Q(85, 100), cfg.name_match_threshold),
                                    Q(85, 100), "Subset match")
              ELSE LET common_chars == CharSet(app_clean) \cap CharSet(doc_clean)
                       similarity == Q(Cardinality(common_chars),
                                       Max(Len(app_clean), Len(doc_clean)))
                       confidence == QMin(similarity, Q(8, 10)) IN
                   ValidationResult("full_name", NAME_MATCH,
                                    QGe(confidence, cfg.name_match_threshold),
                                    confidence, "Character similarity")

\* _validate_name_match(app_name, doc_name)
_validate_name_match(app_name, doc_name, cfg) ==
    IF ~Truthy(app_name) \/ ~Truthy(doc_name)
    THEN ValidationResult("full_name", NAME_MATCH, FALSE, Zero,
                          "Missing name data")
    ELSE LET app_clean == CleanName(app_name.s)
             doc_clean == CleanName(doc_name.s) IN
         IF app_clean = doc_clean
         THEN ValidationResult("full_name", NAME_MATCH, TRUE, One, "Exact match")
         ELSE LET app_words == Words(app_clean)
                  doc_words == Words(doc_clean) IN
              IF app_words \subseteq doc_words \/ doc_words \subseteq app_words
              THEN ValidationResult("full_name", NAME_MATCH,
                                    QGe(Q(85, 100), cfg.name_match_threshold),
                                    Q(85, 100), "Subset match")
              ELSE LET common_chars == CharSet(app_clean) \cap CharSet(doc_clean)
                       similarity == Q(Cardinality(common_chars),
                                       Max(Len(app_clean), Len(doc_clean)))
                       confidence == QMin(similarity, Q(8, 10)) IN
                   ValidationResult("full_name", NAME_MATCH,
                                    QGe(confidence, cfg.name_match_threshold),
                                    confidence, "Character similarity")

\* _validate_dob_match(app_dob, doc_dob)
_validate_dob_match(app_dob, doc_dob) ==
    IF ~Truthy(app_dob) \/ ~Truthy(doc_dob)
    THEN ValidationResult("date_of_birth", DOB_MATCH, FALSE, Zero,
                          "Missing date of birth data")
    ELSE LET is_valid == Strip(app_dob.s) = Strip(doc_dob.s) IN
         ValidationResult("date_of_birth", DOB_MATCH, is_valid,
                          IF is_valid THEN One ELSE Zero,
                          IF is_valid THEN "Exact match"
                                      ELSE "Date of birth mismatch")

address_fields ==
    <<"address_street", "address_city", "address_state", "address_zip">>

\* _has_address_data
_has_address_data(government_id_data) ==
    \E i \in 1..Len(address_fields) :
        Truthy(Get(government_id_data, address_fields[i]))

\* gov_id.get(field, "").lower() is applied to a None when the key is bound
\* to None: the AttributeError leaves _validate_address_match
AddressMatchRaises(government_id_data) ==
    \E i \in 1..Len(address_fields) :
        GetOrEmpty(government_id_data, address_fields[i]).kind = "none"

\* sum(matches)
RECURSIVE SeqSum(_)
SeqSum(seq) ==
    IF seq = <<>> THEN 0 ELSE Head(seq) + SeqSum(Tail(seq))

\* _validate_address_match, for a government ID none of whose address keys
\* is bound to None
_validate_address_match(application_data) ==
    LET gov_id == application_data.government_id_data
        doc_street == Lower(GetOrEmpty(gov_id, "address_street").s)
        doc_city == Lower(GetOrEmpty(gov_id, "address_city").s)
        doc_state == Lower(GetOrEmpty(gov_id, "address_state").s)
        doc_zip == Lower(GetOrEmpty(gov_id, "address_zip").s)
        app_street == Lower(application_data.address_street)
        app_city == Lower(application_data.address_city)
        app_state == Lower(application_data.address_state)
        app_zip == Lower(application_data.address_zip)
        Bit(b) == IF b THEN 1 ELSE 0
        matches ==
            (IF doc_street # <<>> /\ app_street # <<>>
             THEN <<Bit(Contains(app_street, doc_street)
                        \/ Contains(doc_street, app_street))>> ELSE <<>>)
            \o (IF doc_city # <<>> /\ app_city # <<>>
                THEN <<Bit(doc_city = app_city)>> ELSE <<>>)
            \o (IF doc_state # <<>> /\ app_state # <<>>
                THEN <<Bit(doc_state = app_state)>> ELSE <<>>)
            \o (IF doc_zip # <<>> /\ app_zip # <<>>
                THEN <<Bit(doc_zip = app_zip)>> ELSE <<>>) IN
    IF matches = <<>>
    THEN ValidationResult("address", ADDRESS_MATCH, FALSE, Zero,
                          "No address components could be compared")
    ELSE LET confidence == Q(SeqSum(matches), Len(matches)) IN
         ValidationResult("address", ADDRESS_MATCH, QGt(confidence, Q(1, 2)),
                          confidence, "Address component match score")

\* the cleaning both employer names go through before they are compared
CleanEmployer(name) ==
    Strip(RemoveAll(RemoveAll(RemoveAll(Lower(name),
                                        <<"i", "n", "c", ".">>),
                              <<"c", "o", "r", "p", ".">>),
                    <<"l", "l", "c">>))

\* _validate_employer_match(app_employer, doc_employer)
_validate_employer_match(app_employer, doc_employer) ==
    IF ~Truthy(app_employer) \/ ~Truthy(doc_employer)
    THEN ValidationResult("employer_name", EMPLOYER_MATCH, FALSE, Zero,
                          "Missing employer data")
    ELSE LET app_clean == CleanEmployer(app_employer.s)
             doc_clean == CleanEmployer(doc_employer.s) IN
         IF app_clean = doc_clean
         THEN ValidationResult("employer_name", EMPLOYER_MATCH, TRUE, One,
                               "Exact match")
         ELSE IF Contains(doc_clean, app_clean) \/ Contains(app_clean, doc_clean)
         THEN ValidationResult("employer_name", EMPLOYER_MATCH, TRUE, Q(8, 10),
                               "Partial match")
         ELSE LET app_words == Words(app_clean)
                  doc_words == Words(doc_clean)
                  common_words == app_words \cap doc_words IN
              IF common_words # {}
              THEN LET confidence ==
                           QMin(Q(Cardinality(common_words),
                                  Max(Cardinality(app_words),
                                      Cardinality(doc_words))),
                                Q(7, 10)) IN
                   ValidationResult("employer_name", EMPLOYER_MATCH,
                                    QGt(confidence, Q(1, 2)), confidence,
                                    "Common words found")
              ELSE ValidationResult("employer_name", EMPLOYER_MATCH, FALSE,
                                    Zero, "No matching words found")

(***************************************************************************)
(* Risk scoring and the decision rules.                                    *)
(***************************************************************************)
\* risk_weights.get(risk_type, 0.5)
risk_weights(risk_type) ==
    CASE risk_type = "expired_id" -> Q(1, 1)
      [] risk_type = "name_mismatch" -> Q(8, 10)
      [] risk_type = "dob_mismatch" -> Q(9, 10)
      [] risk_type = "address_mismatch" -> Q(3, 10)
      [] risk_type = "employer_mismatch" -> Q(4, 10)
      [] OTHER -> Q(1, 2)

RECURSIVE TotalRisk(_)
TotalRisk(risk_factors) ==
    IF risk_factors = <<>> THEN Zero
    ELSE LET f == risk_factors[Len(risk_factors)] IN
         QAdd(TotalRisk(SubSeq(risk_factors, 1, Len(risk_factors) - 1)),
              QMul(f[2], risk_weights(f[1])))

RECURSIVE TotalWeight(_)
TotalWeight(risk_factors) ==
    IF risk_factors = <<>> THEN Zero
    ELSE LET f == risk_factors[Len(risk_factors)] IN
         QAdd(TotalWeight(SubSeq(risk_factors, 1, Len(risk_factors) - 1)),
              risk_weights(f[1]))

\* _calculate_risk_score that divides by the number of factors
_calculate_risk_score_by_count(risk_factors) ==
    IF risk_factors = <<>> THEN Zero
    ELSE QMin(QDiv(TotalRisk(risk_factors), Q(Len(risk_factors), 1)), One)

\* _calculate_risk_score: the weighted average of the factors, capped at 1
_calculate_risk_score(risk_factors) ==
    IF risk_factors = <<>> THEN Zero
    ELSE IF TotalWeight(risk_factors) = Zero THEN Zero
    ELSE QMin(QDiv(TotalRisk(risk_factors), TotalWeight(risk_factors)), One)

\* _make_decision with rule 2 comparing strictly (risk_score > threshold)
_make_decision_strict(validations_, risk_score_, cfg) ==
    LET expired_id ==
            \E i \in 1..Len(validations_) :
                validations_[i].validation_type = ID_EXPIRY
                /\ ~validations_[i].is_valid
        has_failures ==
            \E i \in 1..Len(validations_) : ~validations_[i].is_valid IN
    IF expired_id /\ cfg.expired_id_auto_reject THEN REJECT
    ELSE IF QGt(risk_score_, cfg.manual_review_threshold) THEN MANUAL_REVIEW
    ELSE IF has_failures THEN MANUAL_REVIEW
    ELSE IF QLe(risk_score_, cfg.auto_approve_threshold) THEN APPROVE
    ELSE MANUAL_REVIEW

\* _make_decision
_make_decision(validations_, risk_score_, cfg) ==
    LET expired_id ==
            \E i \in 1..Len(validations_) :
                validations_[i].validation_type = ID_EXPIRY
                /\ ~validations_[i].is_valid
        has_failures ==
            \E i \in 1..Len(validations_) : ~validations_[i].is_valid IN
    IF expired_id /\ cfg.expired_id_auto_reject THEN REJECT
    ELSE IF QGe(risk_score_, cfg.manual_review_threshold) THEN MANUAL_REVIEW
    ELSE IF has_failures THEN MANUAL_REVIEW
    ELSE IF QLe(risk_score_, cfg.auto_approve_threshold) THEN APPROVE
    ELSE MANUAL_REVIEW

\* [f(x) for x in seq if p(x)]
RECURSIVE FailedReasons(_)
FailedReasons(validations_) ==
    IF validations_ = <<>> THEN <<>>
    ELSE LET v == Head(validations_) IN
         (IF ~v.is_valid THEN <<<<v.field_name, v.details>>>> ELSE <<>>)
         \o FailedReasons(Tail(validations_))

\* _generate_reasoning: the sentences of the explanation, in order; a failed
\* validation contributes the pair <<field_name, details>>
_generate_reasoning(validations_, risk_factors, decision_) ==
    LET expired_id ==
            \E i \in 1..Len(validations_) :
                validations_[i].validation_type = ID_EXPIRY
                /\ ~validations_[i].is_valid
        passed_count ==
            Cardinality({i \in 1..Len(validations_) : validations_[i].is_valid})
        reasons ==
            CASE decision_ = REJECT ->
                     IF expired_id THEN <<"Government ID is expired">> ELSE <<>>
              [] decision_ = MANUAL_REVIEW ->
                     FailedReasons(validations_)
                     \o (IF FailedReasons(validations_) = <<>>
                            /\ risk_factors # <<>>
                         THEN <<"Moderate risk score requires human review">>
                         ELSE <<>>)
              [] decision_ = APPROVE ->
                     <<"All validation checks passed">>
                     \o (IF passed_count > 0
                         THEN <<<<"Validated data points", passed_count>>>>
                         ELSE <<>>) IN
    IF reasons = <<>>
    THEN <<"Decision based on configured business rules">>
    ELSE reasons

(***************************************************************************)
(* DecisionEngine.evaluate_application.                                    *)
(***************************************************************************)
\* the argument None in place of an ApplicationData
NoneArg ==
    [kind |-> "none"]

Raised(exception) ==
    [status |-> "raised", exception |-> exception]

DecisionResult(application_id, decision, risk_score, reasoning, validation_results) ==
    [status |-> "returned", application_id |-> application_id,
     decision |-> decision, risk_score |-> risk_score, reasoning |-> reasoning,
     validation_results |-> validation_results]

\* the validations of an evaluate_application that compared the address of
\* every ID, whether or not the ID carries an address field
ValidationResults_address_always(application_data, cfg, today_) ==
    LET gov == application_data.government_id_data
        emp == application_data.employer_document_data IN
    (IF DictTruthy(gov)
     THEN <<_check_id_expiry(gov, today_),
            _validate_name_match(Str(application_data.full_name),
                                 Get(gov, "full_name"), cfg),
            _validate_dob_match(Str(application_data.date_of_birth),
                                Get(gov, "date_of_birth")),
            _validate_address_match(application_data)>>
     ELSE <<>>)
    \o (IF DictTruthy(emp)
        THEN <<_validate_employer_match(Str(application_data.employer_name),
                                        Get(emp, "employer_name"))>>
        ELSE <<>>)

\* the validations evaluate_application collects, in order, when none raises
ValidationResults(application_data, cfg, today_) ==
    LET gov == application_data.government_id_data
        emp == application_data.employer_document_data IN
    (IF DictTruthy(gov)
     THEN <<_check_id_expiry(gov, today_),
            _validate_name_match(Str(application_data.full_name),
                                 Get(gov, "full_name"), cfg),
            _validate_dob_match(Str(application_data.date_of_birth),
                                Get(gov, "date_of_birth"))>>
     ELSE <<>>)
    \o (IF DictTruthy(gov) /\ _has_address_data(gov)
        THEN <<_validate_address_match(application_data)>> ELSE <<>>)
    \o (IF DictTruthy(emp)
        THEN <<_validate_employer_match(Str(application_data.employer_name),
                                        Get(emp, "employer_name"))>>
        ELSE <<>>)

\* the risk factor of an evaluate_application that weighed every name
\* validation by its lack of confidence, the valid ones included
RiskFactor_by_confidence(v, cfg) ==
    CASE v.validation_type = ID_EXPIRY ->
             IF ~v.is_valid /\ cfg.expired_id_auto_reject
             THEN <<<<"expired_id", One>>>> ELSE <<>>
      [] v.validation_type = NAME_MATCH ->
             <<<<"name_mismatch", QSub(One, v.confidence)>>>>
      [] v.validation_type = DOB_MATCH ->
             IF ~v.is_valid THEN <<<<"dob_mismatch", One>>>> ELSE <<>>
      [] v.validation_type = ADDRESS_MATCH ->
             IF ~v.is_valid
             THEN <<<<"address_mismatch", QSub(One, v.confidence)>>>> ELSE <<>>
      [] v.validation_type = EMPLOYER_MATCH ->
             IF ~v.is_valid
             THEN <<<<"employer_mismatch", QSub(One, v.confidence)>>>> ELSE <<>>

\* the risk factor evaluate_application appends after a validation
RiskFactor(v, cfg) ==
    CASE v.validation_type = ID_EXPIRY ->
             IF ~v.is_valid /\ cfg.expired_id_auto_reject
             THEN <<<<"expired_id", One>>>> ELSE <<>>
      [] v.validation_type = NAME_MATCH ->
             IF ~v.is_valid
             THEN <<<<"name_mismatch", QSub(One, v.confidence)>>>> ELSE <<>>
      [] v.validation_type = DOB_MATCH ->
             IF ~v.is_valid THEN <<<<"dob_mismatch", One>>>> ELSE <<>>
      [] v.validation_type = ADDRESS_MATCH ->
             IF ~v.is_valid
             THEN <<<<"address_mismatch", QSub(One, v.confidence)>>>> ELSE <<>>
      [] v.validation_type = EMPLOYER_MATCH ->
             IF ~v.is_valid
             THEN <<<<"employer_mismatch", QSub(One, v.confidence)>>>> ELSE <<>>

RECURSIVE RiskFactors(_, _)
RiskFactors(validation_results, cfg) ==
    IF validation_results = <<>> THEN <<>>
    ELSE RiskFactor(Head(validation_results), cfg)
         \o RiskFactors(Tail(validation_results), cfg)

\* evaluate_application: None makes the first statement of the try block
\* raise AttributeError and the except handler, which formats the same
\* attribute, raise AttributeError again; an AttributeError out of
\* _validate_address_match is re-raised as DecisionEngineError
evaluate_application(application_data, cfg, today_) ==
    IF application_data.kind = "none" THEN Raised("AttributeError")
    ELSE LET gov == application_data.government_id_data IN
         IF DictTruthy(gov) /\ _has_address_data(gov) /\ AddressMatchRaises(gov)
         THEN Raised("DecisionEngineError")
         ELSE LET validation_results ==
                      ValidationResults(application_data, cfg, today_)
                  risk_factors == RiskFactors(validation_results, cfg)
                  risk_score_ == _calculate_risk_score(risk_factors)
                  decision_ == _make_decision(validation_results, risk_score_, cfg) IN
              DecisionResult(application_data.application_id, decision_,
                             risk_score_,
                             _generate_reasoning(validation_results,
                                                 risk_factors, decision_),
                             validation_results)

(***************************************************************************)
(* The inputs.                                                             *)
(***************************************************************************)
DocumentType ==
    Str(<<"i", "d">>)

\* the values a threshold takes: the schema's bounds and the three defaults
ThresholdValues ==
    {Zero, Q(1, 10), Q(3, 10), Q(7, 10), One}

\* all thresholds at the schema's lower bound, auto-reject off
ConfigMin ==
    [name_match_threshold |-> Zero, auto_approve_threshold |-> Zero,
     manual_review_threshold |-> Zero, expired_id_auto_reject |-> FALSE]

\* all thresholds at the schema's upper bound, auto-reject on
ConfigMax ==
    [name_match_threshold |-> One, auto_approve_threshold |-> One,
     manual_review_threshold |-> One, expired_id_auto_reject |-> TRUE]

\* the configurations the engine is constructed with: the defaults, the
\* defaults without auto-reject, all thresholds at the minimum without
\* auto-reject, all thresholds at the maximum
EngineConfigs ==
    {DecisionConfig,
     [DecisionConfig EXCEPT !.expired_id_auto_reject = FALSE],
     ConfigMin, ConfigMax}

\* the configurations _make_decision is exercised with on its own
DecisionConfigs ==
    [name_match_threshold : {Q(7, 10)}, auto_approve_threshold : ThresholdValues,
     manual_review_threshold : ThresholdValues, expired_id_auto_reject : BOOLEAN]

GovernmentIds ==
    {NoDict,
     Dict([document_type |-> Absent, full_name |-> Absent,
           date_of_birth |-> Absent, expiry_date |-> Absent,
           address_street |-> Absent, address_city |-> Absent,
           address_state |-> Absent, address_zip |-> Absent])}
    \cup
    {Dict(items) : items \in
        [document_type : {DocumentType},
         full_name : {Str(JohnDoe), Str(JohnADoe), Str(JaneSmith), Absent},
         date_of_birth : {Str(Dob1990), Str(Dob1985), Absent},
         expiry_date : {Absent, Str(<<>>), Str(SlashDate)}
                       \cup {Str(IsoOf(d)) : d \in Days},
         address_street : {Absent, None, Str(MainSt), Str(MainStreet),
                           Str(OakAve)},
         address_city : {Absent, None, Str(Anytown), Str(OtherCity)},
         address_state : {Absent, Str(StateCA), Str(StateNY)},
         address_zip : {Absent, Str(Zip12345), Str(Zip67890)}]}

EmployerDocuments ==
    {NoDict}
    \cup
    {Dict(items) : items \in
        [document_type : {DocumentType},
         employer_name : {Str(AcmeCorporation), Str(AcmeCorporationInc),
                          Str(AcmeHoldingsGroup), Str(TechCompany), Absent}]}

AllApplications ==
    [kind : {"app"}, application_id : {"app-1"},
     full_name : {JohnDoe, <<>>}, date_of_birth : {Dob1990},
     address_street : {MainSt}, address_city : {Anytown},
     address_state : {StateCA}, address_zip : {Zip12345},
     employer_name : {AcmeCorporation},
     government_id_data : GovernmentIds,
     employer_document_data : EmployerDocuments]

\* the number of keys at which two dictionaries over the same keys differ
Differences(items, keys, base) ==
    Cardinality({key \in keys : items[key] # base[key]})

Min(a, b) ==
    IF a <= b THEN a ELSE b

\* the number of fields in which the documents of an application depart from
\* a faithful extraction of the declared data; the expiry date is free, and
\* so is whether the ID carries an address and whether there is an employer
\* document at all
Discrepancies(a) ==
    LET gov == a.government_id_data
        emp == a.employer_document_data
        declared_address ==
            [address_street |-> Str(a.address_street),
             address_city |-> Str(a.address_city),
             address_state |-> Str(a.address_state),
             address_zip |-> Str(a.address_zip)]
        no_address ==
            [address_street |-> Absent, address_city |-> Absent,
             address_state |-> Absent, address_zip |-> Absent]
        address_keys == {address_fields[i] : i \in 1..Len(address_fields)} IN
    (IF a.full_name = JohnDoe THEN 0 ELSE 1)
    + (IF DictTruthy(gov)
       THEN (IF gov.items.full_name = Str(JohnDoe) THEN 0 ELSE 1)
            + (IF gov.items.date_of_birth = Str(a.date_of_birth) THEN 0 ELSE 1)
            + Min(Differences(gov.items, address_keys, declared_address),
                  Differences(gov.items, address_keys, no_address))
       ELSE 0)
    + (IF DictTruthy(emp) /\ emp.items.employer_name # Str(a.employer_name)
       THEN 1 ELSE 0)

\* the arguments evaluate_application is called with
Applications ==
    {NoneArg} \cup {a \in AllApplications : Discrepancies(a) <= MaxDiscrepancies}

\* the validation lists and risk scores _make_decision is exercised with
ValidationSamples ==
    {ValidationResult("id_expiry", ID_EXPIRY, TRUE, One, "ID expires on"),
     ValidationResult("id_expiry", ID_EXPIRY, FALSE, Zero,
                      "No expiry date found on ID"),
     ValidationResult("date_of_birth", DOB_MATCH, TRUE, One, "Exact match"),
     ValidationResult("date_of_birth", DOB_MATCH, FALSE, Zero,
                      "Date of birth mismatch")}

ValidationLists ==
    UNION {[1..n -> ValidationSamples] : n \in 0..MaxValidations}

RiskScores ==
    {Zero, Q(1, 10), Q(1, 5), Q(3, 10), Q(1, 2), One}

(***************************************************************************)
(* VectorStore (rag_service.py).  A Python dictionary is the sequence of   *)
(* its <<key, value>> items in insertion order; an embedding is a vector   *)
(* of integers whose Euclidean norm is an integer, so that the cosine      *)
(* similarity of two embeddings is an exact rational.                      *)
(***************************************************************************)
\* key in d
HasKey(d, key) ==
    \E i \in 1..Len(d) : d[i][1] = key

\* d[key]
Lookup(d, key) ==
    d[CHOOSE i \in 1..Len(d) : d[i][1] = key][2]

\* d[key] = value: a key already present keeps its place
SetItem(d, key, value) ==
    IF HasKey(d, key)
    THEN [i \in 1..Len(d) |-> IF d[i][1] = key THEN <<key, value>> ELSE d[i]]
    ELSE Append(d, <<key, value>>)

\* list(d.keys())
Keys(d) ==
    [i \in 1..Len(d) |-> d[i][1]]

\* VectorStore.__init__
EmptyVectorStore ==
    [embeddings |-> <<>>, metadata |-> <<>>, documents |-> <<>>]

Dot(a, b) ==
    a[1] * b[1] + a[2] * b[2]

\* the Euclidean norm of a vector whose norm is an integer
Norm(a) ==
    CHOOSE r \in 0..(Dot(a, a)) : r * r = Dot(a, a)

\* sklearn's cosine_similarity([a], [b])[0][0]; a zero vector is left
\* unnormalised and has similarity 0 to everything
CosineSimilarity(a, b) ==
    IF Norm(a) = 0 \/ Norm(b) = 0 THEN Zero
    ELSE Q(Dot(a, b), Norm(a) * Norm(b))

\* VectorStore.store
store(vector_store_, chunk_id, embedding, metadata) ==
    [embeddings |-> SetItem(vector_store_.embeddings, chunk_id, embedding),
     metadata |-> SetItem(vector_store_.metadata, chunk_id, metadata),
     documents |->
         IF "text" \in DOMAIN metadata
         THEN SetItem(vector_store_.documents, chunk_id, metadata.text)
         ELSE vector_store_.documents]

\* similarities.append((chunk_id, similarity)) for the embeddings, in
\* dictionary order, whose similarity reaches the threshold
RECURSIVE Similarities(_, _, _)
Similarities(embeddings, query_embedding, threshold) ==
    IF embeddings = <<>> THEN <<>>
    ELSE LET similarity ==
                 CosineSimilarity(query_embedding, Head(embeddings)[2])
             rest == Similarities(Tail(embeddings), query_embedding,
                                  threshold) IN
         IF QGe(similarity, threshold)
         THEN <<(<<Head(embeddings)[1], similarity>>)>> \o rest
         ELSE rest

\* insertion of one pair into a list sorted by similarity, descending,
\* after the pairs of equal similarity
RECURSIVE InsertDescending(_, _)
InsertDescending(sorted, pair) ==
    IF sorted = <<>> THEN <<pair>>
    ELSE IF QLt(Head(sorted)[2], pair[2]) THEN <<pair>> \o sorted
    ELSE <<Head(sorted)>> \o InsertDescending(Tail(sorted), pair)

\* the mistaken order: ascending
RECURSIVE InsertAscending(_, _)
InsertAscending(sorted, pair) ==
    IF sorted = <<>> THEN <<pair>>
    ELSE IF QGt(Head(sorted)[2], pair[2]) THEN <<pair>> \o sorted
    ELSE <<Head(sorted)>> \o InsertAscending(Tail(sorted), pair)

\* list.sort(key=lambda x: x[1], reverse=True): stable
RECURSIVE SortDescending(_)
SortDescending(pairs) ==
    IF pairs = <<>> THEN <<>>
    ELSE InsertDescending(SortDescending(SubSeq(pairs, 1, Len(pairs) - 1)),
                          pairs[Len(pairs)])

RECURSIVE SortAscending(_)
SortAscending(pairs) ==
    IF pairs = <<>> THEN <<>>
    ELSE InsertAscending(SortAscending(SubSeq(pairs, 1, Len(pairs) - 1)),
                         pairs[Len(pairs)])

\* list[:k] for k >= 0
FirstK(list, k) ==
    SubSeq(list, 1, Min(k, Len(list)))

\* similarity_search without reverse=True
similarity_search_ascending(vector_store_, query_embedding, k, threshold) ==
    IF vector_store_.embeddings = <<>> THEN <<>>
    ELSE FirstK(SortAscending(Similarities(vector_store_.embeddings,
                                           query_embedding, threshold)), k)

\* VectorStore.similarity_search
similarity_search(vector_store_, query_embedding, k, threshold) ==
    IF vector_store_.embeddings = <<>> THEN <<>>
    ELSE FirstK(SortDescending(Similarities(vector_store_.embeddings,
                                            query_embedding, threshold)), k)

\* VectorStore.get_chunk_count
get_chunk_count(vector_store_) ==
    Len(vector_store_.embeddings)

\* VectorStore.get_metadata: None for an unknown chunk
get_metadata(vector_store_, chunk_id) ==
    IF HasKey(vector_store_.metadata, chunk_id)
    THEN [kind |-> "dict", items |-> Lookup(vector_store_.metadata, chunk_id)]
    ELSE NoDict

(***************************************************************************)
(* DocumentChunker (rag_service.py).                                       *)
(***************************************************************************)
\* str.split(sep): the pieces between the leftmost non-overlapping
\* occurrences of sep; current is the piece being scanned
RECURSIVE SplitFrom(_, _, _)
SplitFrom(s, sep, current) ==
    IF Len(s) < Len(sep) THEN <<current \o s>>
    ELSE IF SubSeq(s, 1, Len(sep)) = sep
         THEN <<current>>
              \o SplitFrom(SubSeq(s, Len(sep) + 1, Len(s)), sep, <<>>)
         ELSE SplitFrom(Tail(s), sep, Append(current, Head(s)))

Split(s, sep) ==
    SplitFrom(s, sep, <<>>)

\* str(n) for n >= 0
RECURSIVE Decimal(_)
Decimal(n) ==
    IF n < 10 THEN <<Digits[n + 1]>>
    ELSE Decimal(n \div 10) \o <<Digits[(n % 10) + 1]>>

ParagraphBreak ==
    <<"\n", "\n">>

\* f"{document_name}_chunk_{chunk_index}"
ChunkId(document_name, chunk_index) ==
    document_name \o <<"_", "c", "h", "u", "n", "k", "_">>
    \o Decimal(chunk_index)

\* the dictionary appended to chunks
Chunk(current_chunk, document_name, chunk_index) ==
    [id |-> ChunkId(document_name, chunk_index),
     text |-> Strip(current_chunk),
     document |-> document_name,
     chunk_index |-> chunk_index,
     char_count |-> Len(current_chunk)]

\* s[-n:] for n > 0
LastN(s, n) ==
    SubSeq(s, Max(Len(s) - n, 0) + 1, Len(s))

\* the loop over the paragraphs and the final chunk of chunk_document
RECURSIVE ChunkParagraphs(_, _, _, _, _, _, _)
ChunkParagraphs(paragraphs, current_chunk, chunk_index, chunks, document_name, chunk_size, overlap) ==
    IF paragraphs = <<>>
    THEN IF Strip(current_chunk) # <<>>
         THEN Append(chunks, Chunk(current_chunk, document_name, chunk_index))
         ELSE chunks
    ELSE LET paragraph == Head(paragraphs) IN
         IF Len(current_chunk) + Len(paragraph) > chunk_size
            /\ current_chunk # <<>>
         THEN ChunkParagraphs(
                  Tail(paragraphs),
                  IF Len(current_chunk) > overlap
                  THEN LastN(current_chunk, overlap) \o ParagraphBreak
                       \o paragraph
                  ELSE paragraph,
                  chunk_index + 1,
                  Append(chunks,
                         Chunk(current_chunk, document_name, chunk_index)),
                  document_name, chunk_size, overlap)
         ELSE ChunkParagraphs(
                  Tail(paragraphs),
                  IF current_chunk # <<>>
                  THEN current_chunk \o ParagraphBreak \o paragraph
                  ELSE paragraph,
                  chunk_index, chunks, document_name, chunk_size, overlap)

\* DocumentChunker(chunk_size, overlap).chunk_document(text, document_name)
chunk_document(text, document_name, chunk_size, overlap) ==
    ChunkParagraphs(Split(text, ParagraphBreak), <<>>, 0, <<>>,
                    document_name, chunk_size, overlap)

\* the chunk ids, embeddings and metadata the store is called with
ChunkIdNames ==
    <<"chunk1", "chunk2", "chunk3", "chunk4">>

ChunkIds ==
    {ChunkIdNames[i] : i \in 1..MaxChunks}

Embeddings ==
    {<<1, 0>>, <<0, 1>>, <<4, 3>>}

QueryEmbeddings ==
    {<<1, 0>>, <<4, 3>>}

TestContent ==
    <<"T", "e", "s", "t", " ", "c", "o", "n", "t", "e", "n", "t">>

TestTxt ==
    <<"t", "e", "s", "t", ".", "t", "x", "t">>

\* metadata with a text, and metadata without one
Metadatas ==
    {[text |-> TestContent, document |-> TestTxt, chunk_index |-> 0],
     [document |-> TestTxt, chunk_index |-> 0]}

\* the k and threshold arguments of similarity_search
SearchKs ==
    1..MaxK

SearchThresholds ==
    {Q(1, 2), Q(7, 10), Q(11, 10)}

(***************************************************************************)
(* RAGService (rag_service.py): the synchronous parts of build_knowledge_  *)
(* base and answer_question.  The embedding and answer-generation calls    *)
(* are the external collaborators; what they return is chosen by the       *)
(* actions that model their completion.                                    *)
(***************************************************************************)
\* the metadata _process_document stores with a chunk
ChunkMetadata(chunk) ==
    [text |-> chunk.text, document |-> chunk.document,
     chunk_index |-> chunk.chunk_index, char_count |-> chunk.char_count]

\* the entry _process_document writes to knowledge_base_index
KnowledgeBaseDocument(document_name, content, chunks) ==
    [id |-> document_name, name |-> document_name,
     content_length |-> Len(content), chunk_count |-> Len(chunks)]

\* the answer returned when the search has no hits
FallbackAnswer ==
    <<"I", " ", "d", "o", "n", "'", "t", " ", "h", "a", "v", "e", " ", "i",
      "n", "f", "o", "r", "m", "a", "t", "i", "o", "n", " ", "a", "b", "o",
      "u", "t", " ", "t", "h", "a", "t", " ", "i", "n", " ", "m", "y", " ",
      "H", "S", "A", " ", "k", "n", "o", "w", "l", "e", "d", "g", "e", " ",
      "b", "a", "s", "e", ".", " ", "P", "l", "e", "a", "s", "e", " ", "r",
      "e", "p", "h", "r", "a", "s", "e", " ", "y", "o", "u", "r", " ", "q",
      "u", "e", "s", "t", "i", "o", "n", " ", "o", "r", " ", "a", "s", "k",
      " ", "a", "b", "o", "u", "t", " ", "H", "S", "A", " ", "e", "l", "i",
      "g", "i", "b", "i", "l", "i", "t", "y", ",", " ", "c", "o", "n", "t",
      "r", "i", "b", "u", "t", "i", "o", "n", " ", "l", "i", "m", "i", "t",
      "s", ",", " ", "q", "u", "a", "l", "i", "f", "i", "e", "d", " ", "e",
      "x", "p", "e", "n", "s", "e", "s", ",", " ", "o", "r", " ", "a", "c",
      "c", "o", "u", "n", "t", " ", "m", "a", "n", "a", "g", "e", "m", "e",
      "n", "t", ".">>

QAResponse(answer, confidence_score, citations, source_documents, processing_time_ms) ==
    [status |-> "returned", answer |-> answer,
     confidence_score |-> confidence_score, citations |-> citations,
     source_documents |-> source_documents,
     processing_time_ms |-> processing_time_ms]

\* raise RAGServiceError
RAGServiceError ==
    [status |-> "raised", exception |-> "RAGServiceError"]

Citation(document_name, excerpt, relevance_score) ==
    [document_name |-> document_name, excerpt |-> excerpt,
     relevance_score |-> relevance_score]

\* the loop over the sentences of _create_excerpt: the first sentence of at
\* least 20 characters with the most words in common with the question
RECURSIVE BestSentence(_, _, _, _)
BestSentence(sentences, question_words, best_sentence, max_word_matches) ==
    IF sentences = <<>> THEN best_sentence
    ELSE LET sentence == Strip(Head(sentences))
             word_matches ==
                 Cardinality(question_words \cap Words(Lower(sentence))) IN
         IF Len(sentence) >= 20 /\ word_matches > max_word_matches
         THEN BestSentence(Tail(sentences), question_words, sentence,
                           word_matches)
         ELSE BestSentence(Tail(sentences), question_words, best_sentence,
                           max_word_matches)

\* RAGService._create_excerpt
_create_excerpt(text, question, max_length) ==
    LET best_sentence ==
            BestSentence(Split(text, <<".">>), Words(Lower(question)),
                         <<>>, 0) IN
    IF best_sentence # <<>> /\ Len(best_sentence) <= max_length
    THEN best_sentence \o <<".">>
    ELSE IF best_sentence # <<>>
    THEN SubSeq(best_sentence, 1, max_length - 3) \o <<".", ".", ".">>
    ELSE IF Len(text) > max_length
    THEN SubSeq(text, 1, max_length - 3) \o <<".", ".", ".">>
    ELSE text

\* sum(score for _, score in search_results)
RECURSIVE SumOfScores(_)
SumOfScores(search_results) ==
    IF search_results = <<>> THEN Zero
    ELSE QAdd(Head(search_results)[2], SumOfScores(Tail(search_results)))

\* RAGService._calculate_confidence
_calculate_confidence(search_results, response) ==
    IF search_results = <<>> THEN Zero
    ELSE LET avg_similarity ==
                 QDiv(SumOfScores(search_results),
                      Q(Len(search_results), 1))
             result_quality == QMin(Q(Len(search_results), 3), One)
             response_length_factor == QMin(Q(Len(response), 200), One)
             confidence ==
                 QAdd(QAdd(QMul(avg_similarity, Q(6, 10)),
                           QMul(result_quality, Q(2, 10))),
                      QMul(response_length_factor, Q(2, 10))) IN
         QMin(confidence, One)

\* RAGService._calculate_processing_time, in milliseconds
_calculate_processing_time(start_time, now_) ==
    now_ - start_time

\* _update_metrics that loses the processing time
_update_metrics_untimed(metrics, confidence_score, processing_time_ms) ==
    [query_count |-> metrics.query_count + 1,
     total_response_time |-> metrics.total_response_time,
     confidence_scores |-> Append(metrics.confidence_scores, confidence_score)]

\* RAGService._update_metrics
_update_metrics(metrics, confidence_score, processing_time_ms) ==
    [query_count |-> metrics.query_count + 1,
     total_response_time |-> metrics.total_response_time + processing_time_ms,
     confidence_scores |-> Append(metrics.confidence_scores, confidence_score)]

\* the truth value of what get_metadata returned
MetadataTruthy(metadata) ==
    metadata.kind = "dict" /\ DOMAIN metadata.items # {}

\* the hits of search_results whose metadata is found, in order
RECURSIVE ContextChunks(_, _)
ContextChunks(vector_store_, search_results) ==
    IF search_results = <<>> THEN <<>>
    ELSE LET metadata == get_metadata(vector_store_, Head(search_results)[1])
             rest == ContextChunks(vector_store_, Tail(search_results)) IN
         IF MetadataTruthy(metadata)
         THEN <<[metadata |-> metadata.items,
                 similarity_score |-> Head(search_results)[2]]>> \o rest
         ELSE rest

\* the citations answer_question builds, one per hit with metadata
Citations(context, question) ==
    [i \in 1..Len(context) |->
        Citation(context[i].metadata.document,
                 _create_excerpt(context[i].metadata.text, question, 200),
                 context[i].similarity_score)]

\* the set source_documents that answer_question collects
SourceDocuments(context) ==
    {context[i].metadata.document : i \in 1..Len(context)}

\* list(a_set): the elements in an order the code does not determine
Orderings(set) ==
    {list \in [1..Cardinality(set) -> set] :
        {list[i] : i \in 1..Cardinality(set)} = set}

\* the response returned when the search has no hits
FallbackResponse(processing_time_ms) ==
    QAResponse(FallbackAnswer, Zero, <<>>, <<>>, processing_time_ms)

\* the *.txt files of the knowledge-base directory, in the order of glob
HsaFaqTxt ==
    <<"H", "S", "A", "_", "F", "A", "Q", ".", "t", "x", "t">>

HsaLimitsTxt ==
    <<"H", "S", "A", "_", "L", "i", "m", "i", "t", "s", ".", "t", "x", "t">>

DocumentNames ==
    <<HsaFaqTxt, HsaLimitsTxt>>

NoFile ==
    [exists |-> FALSE, content |-> <<>>]

File(content) ==
    [exists |-> TRUE, content |-> content]

\* a paragraph of n characters
Paragraph(char, n) ==
    [i \in 1..n |-> char]

\* a document of one chunk, and a document of two chunks
OneParagraph ==
    Paragraph("a", ChunkSize)

TwoParagraphs ==
    Paragraph("a", ChunkSize) \o ParagraphBreak \o Paragraph("b", ChunkSize)

\* the contents the knowledge-base directory can have
Directories ==
    {[name \in {HsaFaqTxt, HsaLimitsTxt} |->
         IF name = HsaFaqTxt THEN faq ELSE limits] :
        faq \in {NoFile, File(OneParagraph), File(TwoParagraphs)},
        limits \in {NoFile, File(OneParagraph)}}

\* list(knowledge_base_path.glob("*.txt"))
DocumentFiles(directory) ==
    SelectSeq(DocumentNames, LAMBDA name : directory[name].exists)

\* self.chunker.chunk_document(content, document_name)
ChunksOf(directory, document_name) ==
    chunk_document(directory[document_name].content, document_name,
                   ChunkSize, Overlap)

\* what the embedding collaborator returns for a chunk and for a question
ChunkEmbeddings ==
    {<<1, 0>>, <<0, 1>>}

\* the embeddings the chunks get while questions are answered during a build
BuildEmbeddings ==
    {<<1, 0>>}

QuestionEmbeddings ==
    {<<1, 0>>, <<4, 3>>}

\* the questions asked and the answers the generation collaborator returns
HsaLimitsQuestion ==
    <<"H", "S", "A", " ", "l", "i", "m", "i", "t", "s", "?">>

Questions ==
    {HsaLimitsQuestion}

TestResponse ==
    <<"T", "e", "s", "t", " ", "r", "e", "s", "p", "o", "n", "s", "e">>

Answers ==
    {TestResponse}

\* the concurrent answer_question calls
Tasks ==
    1..MaxTasks

\* _process_document up to its first suspension, for each of the files in
\* turn: a document without chunks is only entered in knowledge_base_index;
\* the build is suspended at the embedding of the first chunk of the first
\* document that has chunks, or done
RECURSIVE ProcessDocuments(_, _, _, _)
ProcessDocuments(document_files, directory, index, previous) ==
    IF document_files = <<>>
    THEN [build |-> [pc |-> "done", document_files |-> <<>>, chunks |-> <<>>,
                     i |-> 0, previous |-> previous],
          knowledge_base_index |-> index]
    ELSE LET document_name == Head(document_files)
             chunks == ChunksOf(directory, document_name) IN
         IF chunks = <<>>
         THEN ProcessDocuments(
                  Tail(document_files), directory,
                  SetItem(index, document_name,
                          KnowledgeBaseDocument(
                              document_name,
                              directory[document_name].content, chunks)),
                  previous)
         ELSE [build |-> [pc |-> "embedding",
                          document_files |-> document_files,
                          chunks |-> chunks, i |-> 1, previous |-> previous],
               knowledge_base_index |-> index]

(***************************************************************************)
(* AuditService (decision_engine.py): the entries it creates and the       *)
(* trails it returns.  Timestamps are left out.                            *)
(***************************************************************************)
system_version ==
    "1.0.0"

AuditEntry(decision_result, application_data_) ==
    [application_id |-> decision_result.application_id,
     decision |-> decision_result.decision,
     risk_score |-> decision_result.risk_score,
     reasoning |-> decision_result.reasoning,
     validation_results |-> decision_result.validation_results,
     application_snapshot |-> application_data_,
     system_version |-> system_version]

AuditTrail(application_id, entries) ==
    [application_id |-> application_id, entries |-> entries]

\* what AuditService.get_audit_trail returns
get_audit_trail_result(application_id) ==
    AuditTrail(application_id, <<>>)

\* the applicants whose decisions are logged
ApplicationIds ==
    {"app-1", "app-2"}

\* the application of an applicant, without documents
SampleApplication(application_id) ==
    [kind |-> "app", application_id |-> application_id,
     full_name |-> JohnDoe, date_of_birth |-> Dob1990,
     address_street |-> MainSt, address_city |-> Anytown,
     address_state |-> StateCA, address_zip |-> Zip12345,
     employer_name |-> AcmeCorporation,
     government_id_data |-> NoDict, employer_document_data |-> NoDict]

\* the decisions handed to log_decision
AuditedDecisions ==
    {DecisionResult(id, d, Zero, <<>>, <<>>) :
        id \in ApplicationIds, d \in DecisionType}

(***************************************************************************)
(* The state machine.                                                      *)
(***************************************************************************)
VARIABLES
    config,            \* decision_engine.config of the module-level engine
    today,             \* the calendar day date.today() returns
    pc,                \* "idle", or "done" once a call has completed
    application_data,  \* the argument of the evaluate_application call
    result,            \* what the evaluate_application call returned or raised
    validations,       \* the validations of a direct _make_decision call
    risk_score,        \* the risk score of a direct _make_decision call
    decision,          \* what the direct _make_decision call returned
    audit_logged,      \* history: the entries log_decision has returned
    audit_trail,       \* what the get_audit_trail call in progress returned
    vector_store,      \* the VectorStore: embeddings, metadata, documents
    last_stored,       \* history: the arguments of the last store call per id
    search,            \* the similarity_search call in progress and its result
    kb_directory,      \* the files of the knowledge-base directory
    knowledge_base_index, \* RAGService.knowledge_base_index
    build,             \* the build_knowledge_base call, where it is suspended
    tasks,             \* the answer_question calls, where each is suspended
    now,               \* datetime.utcnow(), in milliseconds
    query_count,       \* RAGService.query_count
    total_response_time, \* RAGService.total_response_time
    confidence_scores, \* RAGService.confidence_scores
    frame              \* a direct call of one method: arguments, return value

engineVars ==
    <<config, today, pc, application_data, result, validations, risk_score,
      decision>>

auditVars ==
    <<audit_logged, audit_trail>>

storeVars ==
    <<vector_store, last_stored, search>>

metricVars ==
    <<query_count, total_response_time, confidence_scores>>

ragVars ==
    <<kb_directory, knowledge_base_index, build, tasks, now, metricVars>>

vars ==
    <<engineVars, frame, auditVars, storeVars, ragVars>>

NoTrail ==
    [application_id |-> "none", entries |-> <<>>]

\* audit_service = AuditService() at import of api/v1/decisions.py
InitAudit ==
    /\ audit_logged = <<>>
    /\ audit_trail = NoTrail

NoCall ==
    [kind |-> "none"]

NoSearch ==
    [status |-> "none"]

\* vector_store = VectorStore()
InitStore ==
    /\ vector_store = EmptyVectorStore
    /\ last_stored = [chunk_id \in ChunkIds |-> NoCall]
    /\ search = NoSearch

NoResponse ==
    [status |-> "none"]

\* no build_knowledge_base call is running
IdleBuild ==
    [pc |-> "idle", document_files |-> <<>>, chunks |-> <<>>, i |-> 0,
     previous |-> EmptyVectorStore]

\* no answer_question call is running in the task
IdleTask ==
    [pc |-> "idle", question |-> <<>>, start_time |-> 0,
     question_embedding |-> <<>>, search_results |-> <<>>,
     context |-> <<>>, embedding_calls |-> 0,
     llm_calls |-> 0, response |-> NoResponse]

EmptyDirectory ==
    [name \in {HsaFaqTxt, HsaLimitsTxt} |-> NoFile]

\* RAGService.__init__: no document indexed, no query answered
InitMetrics ==
    /\ query_count = 0
    /\ total_response_time = 0
    /\ confidence_scores = <<>>

InitRag ==
    /\ kb_directory = EmptyDirectory
    /\ knowledge_base_index = <<>>
    /\ build = IdleBuild
    /\ tasks = [t \in Tasks |-> IdleTask]
    /\ now = 0
    /\ InitMetrics

serviceVars ==
    <<auditVars, storeVars, ragVars, frame>>

\* no method is called directly
NoFrame ==
    [pc |-> "none"]

InitServices ==
    InitAudit /\ InitStore /\ InitRag /\ frame = NoFrame

NoResult ==
    [status |-> "none"]

NoDecision ==
    "none"

\* decision_engine = DecisionEngine() at import of api/v1/decisions.py
InitEngine ==
    /\ config = DecisionConfig
    /\ today = 0
    /\ pc = "idle"
    /\ application_data = NoneArg
    /\ result = NoResult
    /\ validations = <<>>
    /\ risk_score = Zero
    /\ decision = NoDecision

Init ==
    InitEngine /\ InitServices

\* POST /decisions/config: a new engine with the given configuration
update_decision_config(c) ==
    /\ pc = "idle"
    /\ config' = c
    /\ UNCHANGED <<today, pc, application_data, result, validations,
                   risk_score, decision>>
    /\ UNCHANGED serviceVars

\* midnight passes: date.today() returns the next day
Midnight ==
    /\ pc = "idle"
    /\ today < MaxDay
    /\ today' = today + 1
    /\ UNCHANGED <<config, pc, application_data, result, validations,
                   risk_score, decision>>
    /\ UNCHANGED serviceVars

\* one call of decision_engine.evaluate_application
EvaluateApplication(a) ==
    /\ pc = "idle"
    /\ application_data' = a
    /\ result' = evaluate_application(a, config, today)
    /\ pc' = "done"
    /\ UNCHANGED <<config, today, validations, risk_score, decision>>
    /\ UNCHANGED serviceVars

\* the caller has consumed the outcome
Return ==
    /\ pc = "done"
    /\ pc' = "idle"
    /\ application_data' = NoneArg
    /\ result' = NoResult
    /\ validations' = <<>>
    /\ risk_score' = Zero
    /\ decision' = NoDecision
    /\ UNCHANGED <<config, today>>
    /\ UNCHANGED serviceVars

Next ==
    \/ \E c \in EngineConfigs : update_decision_config(c)
    \/ Midnight
    \/ \E a \in Applications : EvaluateApplication(a)
    \/ Return

Spec ==
    Init /\ [][Next]_vars

(***************************************************************************)
(* _make_decision on its own: any validation list, risk score and          *)
(* configuration.                                                          *)
(***************************************************************************)
InitDecision ==
    /\ config \in DecisionConfigs
    /\ today = 0
    /\ pc = "idle"
    /\ application_data = NoneArg
    /\ result = NoResult
    /\ validations \in ValidationLists
    /\ risk_score \in RiskScores
    /\ decision = NoDecision
    /\ InitServices

MakeDecision ==
    /\ pc = "idle"
    /\ decision' = _make_decision(validations, risk_score, config)
    /\ pc' = "done"
    /\ UNCHANGED <<config, today, application_data, result, validations,
                   risk_score>>
    /\ UNCHANGED serviceVars

NextDecision ==
    MakeDecision

SpecDecision ==
    InitDecision /\ [][NextDecision]_vars

(***************************************************************************)
(* The audit service: log_decision and get_audit_trail calls.              *)
(***************************************************************************)
\* AuditService.log_decision: the entry is created and returned; nothing is
\* stored
log_decision(decision_result, application_data_) ==
    /\ audit_trail = NoTrail
    /\ Len(audit_logged) < MaxLogged
    /\ audit_logged' =
           Append(audit_logged, AuditEntry(decision_result, application_data_))
    /\ UNCHANGED <<audit_trail, engineVars, frame, storeVars, ragVars>>

\* AuditService.get_audit_trail
get_audit_trail(application_id) ==
    /\ audit_trail = NoTrail
    /\ audit_trail' = get_audit_trail_result(application_id)
    /\ UNCHANGED <<audit_logged, engineVars, frame, storeVars, ragVars>>

\* the caller has consumed the trail
ReturnTrail ==
    /\ audit_trail # NoTrail
    /\ audit_trail' = NoTrail
    /\ UNCHANGED <<audit_logged, engineVars, frame, storeVars, ragVars>>

NextAudit ==
    \/ \E d \in AuditedDecisions :
           log_decision(d, SampleApplication(d.application_id))
    \/ \E id \in ApplicationIds : get_audit_trail(id)
    \/ ReturnTrail

SpecAudit ==
    Init /\ [][NextAudit]_vars

\* the entries logged for one applicant, in the order they were logged
LoggedFor(application_id) ==
    SelectSeq(audit_logged, LAMBDA e : e.application_id = application_id)

\* C12: get_audit_trail(id) returns exactly the entries logged for applicant
\* id, in the order they were logged, and the empty list only if none were
\* logged.
C12_TrailHoldsLoggedEntries ==
    audit_trail # NoTrail =>
        audit_trail.entries = LoggedFor(audit_trail.application_id)

(***************************************************************************)
(* The vector store called directly: store and similarity_search.          *)
(***************************************************************************)
\* one call of vector_store.store
Store(chunk_id, embedding, metadata) ==
    /\ search = NoSearch
    /\ vector_store' = store(vector_store, chunk_id, embedding, metadata)
    /\ last_stored' =
           [last_stored EXCEPT ![chunk_id] =
               [kind |-> "call", embedding |-> embedding,
                metadata |-> metadata]]
    /\ UNCHANGED <<search, engineVars, frame, auditVars, ragVars>>

\* one call of vector_store.similarity_search
SimilaritySearch(query_embedding, k, threshold) ==
    /\ search = NoSearch
    /\ search' =
           [status |-> "returned", query_embedding |-> query_embedding,
            k |-> k, threshold |-> threshold,
            hits |-> similarity_search(vector_store, query_embedding, k,
                                       threshold)]
    /\ UNCHANGED <<vector_store, last_stored, engineVars, frame, auditVars,
                   ragVars>>

\* the caller has consumed the hits
ReturnSearch ==
    /\ search # NoSearch
    /\ search' = NoSearch
    /\ UNCHANGED <<vector_store, last_stored, engineVars, frame, auditVars,
                   ragVars>>

NextStore ==
    \/ \E chunk_id \in ChunkIds, embedding \in Embeddings,
          metadata \in Metadatas : Store(chunk_id, embedding, metadata)
    \/ \E query_embedding \in QueryEmbeddings, k \in SearchKs,
          threshold \in SearchThresholds :
           SimilaritySearch(query_embedding, k, threshold)
    \/ ReturnSearch

SpecStore ==
    Init /\ [][NextStore]_vars

\* the stored chunks whose similarity to the query reaches the threshold
Qualifying(query_embedding, threshold) ==
    {i \in 1..Len(vector_store.embeddings) :
        QGe(CosineSimilarity(query_embedding, vector_store.embeddings[i][2]),
            threshold)}

\* C18: similarity_search returns the exact top-k above the threshold: at
\* most k pairs, each a stored chunk with its similarity >= threshold, in
\* non-increasing similarity order; no stored chunk left out reaches the
\* threshold with a similarity strictly greater than a returned one, and all
\* qualifying chunks are returned when at most k qualify; on an empty index,
\* or when no chunk reaches the threshold, the result is the empty list.
C18_ExactTopK ==
    search # NoSearch =>
        LET hits == search.hits
            q == search.query_embedding
            qualifying == Qualifying(q, search.threshold)
            returned == {hits[i][1] : i \in 1..Len(hits)} IN
        /\ search.status = "returned"
        /\ Len(hits) <= search.k
        /\ Cardinality(returned) = Len(hits)
        /\ \A i \in 1..Len(hits) :
               /\ HasKey(vector_store.embeddings, hits[i][1])
               /\ hits[i][2] =
                      CosineSimilarity(q, Lookup(vector_store.embeddings,
                                                 hits[i][1]))
               /\ QGe(hits[i][2], search.threshold)
        /\ \A i \in 1..(Len(hits) - 1) : QGe(hits[i][2], hits[i + 1][2])
        /\ \A j \in qualifying :
               vector_store.embeddings[j][1] \notin returned =>
                   \A i \in 1..Len(hits) :
                       QLe(CosineSimilarity(q, vector_store.embeddings[j][2]),
                           hits[i][2])
        /\ Len(hits) = Min(search.k, Cardinality(qualifying))
        /\ vector_store.embeddings = <<>> \/ qualifying = {} => hits = <<>>

\* a search with k = 1 over two stored chunks that both reach the threshold
\* with different similarities: only the more similar one is returned
C18_Witness ==
    /\ search # NoSearch /\ search.k = 1
    /\ Len(search.hits) = 1
    /\ Cardinality(Qualifying(search.query_embedding, search.threshold)) = 2
    /\ \E j \in Qualifying(search.query_embedding, search.threshold) :
           QLt(CosineSimilarity(search.query_embedding,
                                vector_store.embeddings[j][2]),
               search.hits[1][2])
    /\ vector_store.embeddings[1][1] # search.hits[1][1]

\* no key occurs twice in a dictionary
DistinctKeys(d) ==
    Cardinality({d[i][1] : i \in 1..Len(d)}) = Len(d)

\* C19: store is an idempotent upsert: the store holds exactly one entry per
\* distinct chunk id, the embedding, metadata and document text held for an
\* id are those of the most recent store call for that id, and repeating
\* that call leaves the store unchanged.
C19_StoreIdempotentUpsert ==
    /\ DistinctKeys(vector_store.embeddings)
    /\ DistinctKeys(vector_store.metadata)
    /\ DistinctKeys(vector_store.documents)
    /\ \A chunk_id \in ChunkIds :
           LET last == last_stored[chunk_id] IN
           IF last = NoCall
           THEN /\ ~HasKey(vector_store.embeddings, chunk_id)
                /\ ~HasKey(vector_store.metadata, chunk_id)
                /\ ~HasKey(vector_store.documents, chunk_id)
           ELSE /\ HasKey(vector_store.embeddings, chunk_id)
                /\ Lookup(vector_store.embeddings, chunk_id) = last.embedding
                /\ HasKey(vector_store.metadata, chunk_id)
                /\ Lookup(vector_store.metadata, chunk_id) = last.metadata
                /\ IF "text" \in DOMAIN last.metadata
                   THEN /\ HasKey(vector_store.documents, chunk_id)
                        /\ Lookup(vector_store.documents, chunk_id)
                               = last.metadata.text
                   ELSE ~HasKey(vector_store.documents, chunk_id)
                /\ store(vector_store, chunk_id, last.embedding,
                         last.metadata) = vector_store

(***************************************************************************)
(* The RAG service.  build_knowledge_base and answer_question are          *)
(* coroutines on one event loop: a call runs without interruption from one *)
(* external call (embedding, answer generation) to the next, and other     *)
(* calls run while it waits.  `await vector_store.store(...)` and          *)
(* `await vector_store.similarity_search(...)` never wait.                 *)
(***************************************************************************)
\* the files of the knowledge-base directory are replaced while no build runs
ChangeDirectory(directory) ==
    /\ build.pc = "idle"
    /\ directory # kb_directory
    /\ kb_directory' = directory
    /\ UNCHANGED <<knowledge_base_index, build, tasks, now, metricVars,
                   engineVars, frame, auditVars, storeVars>>

\* build_knowledge_base is called (first access to the service, or the
\* background task of POST /qa/rebuild) and runs up to its first embedding
\* call; without any .txt file it raises
StartBuild ==
    /\ build.pc = "idle"
    /\ IF DocumentFiles(kb_directory) = <<>>
       THEN /\ build' = [IdleBuild EXCEPT !.pc = "failed",
                                           !.previous = vector_store]
            /\ UNCHANGED knowledge_base_index
       ELSE LET p == ProcessDocuments(DocumentFiles(kb_directory),
                                      kb_directory, knowledge_base_index,
                                      vector_store) IN
            /\ build' = p.build
            /\ knowledge_base_index' = p.knowledge_base_index
    /\ UNCHANGED <<kb_directory, tasks, now, metricVars, engineVars, frame,
                   auditVars, storeVars>>

\* the embedding of the chunk the build waits for arrives: the chunk is
\* stored in the served vector store, and the build runs on to its next
\* embedding call or to its end
BuildEmbeddingReturns(embedding) ==
    /\ build.pc = "embedding"
    /\ LET chunk == build.chunks[build.i]
           document_name == Head(build.document_files) IN
       /\ vector_store' =
              store(vector_store, chunk.id, embedding, ChunkMetadata(chunk))
       /\ IF build.i < Len(build.chunks)
          THEN /\ build' = [build EXCEPT !.i = @ + 1]
               /\ UNCHANGED knowledge_base_index
          ELSE LET p == ProcessDocuments(
                            Tail(build.document_files), kb_directory,
                            SetItem(knowledge_base_index, document_name,
                                    KnowledgeBaseDocument(
                                        document_name,
                                        kb_directory[document_name].content,
                                        build.chunks)),
                            build.previous) IN
               /\ build' = p.build
               /\ knowledge_base_index' = p.knowledge_base_index
    /\ UNCHANGED <<kb_directory, tasks, now, metricVars, engineVars, frame,
                   auditVars, last_stored, search>>

\* the embedding call of the build fails: RAGServiceError
BuildEmbeddingFails ==
    /\ build.pc = "embedding"
    /\ build' = [build EXCEPT !.pc = "failed"]
    /\ UNCHANGED <<kb_directory, knowledge_base_index, tasks, now,
                   metricVars, engineVars, frame, auditVars, storeVars>>

\* the caller of build_knowledge_base has seen its outcome
BuildReturns ==
    /\ build.pc \in {"done", "failed"}
    /\ build' = IdleBuild
    /\ UNCHANGED <<kb_directory, knowledge_base_index, tasks, now,
                   metricVars, engineVars, frame, auditVars, storeVars>>

\* answer_question is called: start_time is taken and the embedding of the
\* question is requested
AskQuestion(t, question) ==
    /\ tasks[t].pc = "idle"
    /\ tasks' = [tasks EXCEPT ![t] =
                    [IdleTask EXCEPT !.pc = "embedding",
                                     !.question = question,
                                     !.start_time = now,
                                     !.embedding_calls = 1]]
    /\ UNCHANGED <<kb_directory, knowledge_base_index, build, now,
                   metricVars, engineVars, frame, auditVars, storeVars>>

\* QuestionEmbedded without the early return on an empty search result
QuestionEmbedded_unguarded(t, question_embedding) ==
    /\ tasks[t].pc = "embedding"
    /\ LET search_results ==
               similarity_search(vector_store, question_embedding, 5,
                                 Q(7, 10))
           context == ContextChunks(vector_store, search_results) IN
       tasks' = [tasks EXCEPT ![t] =
           IF \E i \in 1..Len(context) :
                  ~({"document", "text"} \subseteq
                        DOMAIN context[i].metadata)
           THEN [@ EXCEPT !.pc = "done",
                          !.question_embedding = question_embedding,
                          !.response = RAGServiceError]
           ELSE [@ EXCEPT !.pc = "generating",
                          !.question_embedding = question_embedding,
                          !.search_results = search_results,
                          !.context = context,
                          !.llm_calls = 1]]
    /\ UNCHANGED <<kb_directory, knowledge_base_index, build, now,
                   metricVars, engineVars, frame, auditVars, storeVars>>

\* the embedding of the question arrives: the store is searched; without
\* hits the fallback response is returned, with hits the citations are
\* built and the answer generation is requested
QuestionEmbedded(t, question_embedding) ==
    /\ tasks[t].pc = "embedding"
    /\ LET search_results ==
               similarity_search(vector_store, question_embedding, 5,
                                 Q(7, 10))
           context == ContextChunks(vector_store, search_results) IN
       tasks' = [tasks EXCEPT ![t] =
           IF search_results = <<>>
           THEN [@ EXCEPT !.pc = "done",
                          !.question_embedding = question_embedding,
                          !.response =
                              FallbackResponse(
                                  _calculate_processing_time(
                                      tasks[t].start_time, now))]
           ELSE IF \E i \in 1..Len(context) :
                       ~({"document", "text"} \subseteq
                             DOMAIN context[i].metadata)
           THEN [@ EXCEPT !.pc = "done",
                          !.question_embedding = question_embedding,
                          !.response = RAGServiceError]
           ELSE [@ EXCEPT !.pc = "generating",
                          !.question_embedding = question_embedding,
                          !.search_results = search_results,
                          !.context = context,
                          !.llm_calls = 1]]
    /\ UNCHANGED <<kb_directory, knowledge_base_index, build, now,
                   metricVars, engineVars, frame, auditVars, storeVars>>

\* QuestionEmbeddingFails of a service that repeated the failed embedding
\* call once before raising
QuestionEmbeddingFails_retried(t) ==
    /\ tasks[t].pc = "embedding"
    /\ tasks' = [tasks EXCEPT ![t] =
                    [@ EXCEPT !.pc = "done", !.embedding_calls = 2,
                              !.response = RAGServiceError]]
    /\ UNCHANGED <<kb_directory, knowledge_base_index, build, now,
                   metricVars, engineVars, frame, auditVars, storeVars>>

\* the embedding call of the question fails: RAGServiceError
QuestionEmbeddingFails(t) ==
    /\ tasks[t].pc = "embedding"
    /\ tasks' = [tasks EXCEPT ![t] =
                    [@ EXCEPT !.pc = "done", !.response = RAGServiceError]]
    /\ UNCHANGED <<kb_directory, knowledge_base_index, build, now,
                   metricVars, engineVars, frame, auditVars, storeVars>>

\* the generated answer arrives: the confidence is computed, the metrics
\* are updated and the response is returned; list(source_documents) lists
\* the set in an order of its own
ResponseGenerated(t, response_text) ==
    /\ tasks[t].pc = "generating"
    /\ \E source_documents \in
              Orderings(SourceDocuments(tasks[t].context)) :
       LET confidence_score ==
               _calculate_confidence(tasks[t].search_results, response_text)
           processing_time ==
               _calculate_processing_time(tasks[t].start_time, now)
           metrics ==
               _update_metrics(
                   [query_count |-> query_count,
                    total_response_time |-> total_response_time,
                    confidence_scores |-> confidence_scores],
                   confidence_score, processing_time) IN
       /\ query_count' = metrics.query_count
       /\ total_response_time' = metrics.total_response_time
       /\ confidence_scores' = metrics.confidence_scores
       /\ tasks' = [tasks EXCEPT ![t] =
              [@ EXCEPT !.pc = "done",
                        !.response =
                            QAResponse(response_text, confidence_score,
                                       Citations(tasks[t].context,
                                                 tasks[t].question),
                                       source_documents, processing_time)]]
    /\ UNCHANGED <<kb_directory, knowledge_base_index, build, now,
                   engineVars, frame, auditVars, storeVars>>

\* the answer generation fails: RAGServiceError
GenerationFails(t) ==
    /\ tasks[t].pc = "generating"
    /\ tasks' = [tasks EXCEPT ![t] =
                    [@ EXCEPT !.pc = "done", !.response = RAGServiceError]]
    /\ UNCHANGED <<kb_directory, knowledge_base_index, build, now,
                   metricVars, engineVars, frame, auditVars, storeVars>>

\* a millisecond passes
Tick ==
    /\ now < MaxTime
    /\ now' = now + 1
    /\ UNCHANGED <<kb_directory, knowledge_base_index, build, tasks,
                   metricVars, engineVars, frame, auditVars, storeVars>>

\* the steps of the answer_question call of task t
AnswerQuestion(t) ==
    \/ \E question \in Questions : AskQuestion(t, question)
    \/ \E question_embedding \in QuestionEmbeddings :
           QuestionEmbedded(t, question_embedding)
    \/ QuestionEmbeddingFails(t)
    \/ \E response_text \in Answers : ResponseGenerated(t, response_text)
    \/ GenerationFails(t)

(***************************************************************************)
(* Builds and rebuilds of the knowledge base while one question is         *)
(* answered.                                                               *)
(***************************************************************************)
NextBuild ==
    \/ \E directory \in Directories : ChangeDirectory(directory)
    \/ StartBuild
    \/ \E embedding \in BuildEmbeddings : BuildEmbeddingReturns(embedding)
    \/ BuildEmbeddingFails
    \/ BuildReturns
    \/ AnswerQuestion(1)

SpecBuild ==
    Init /\ [][NextBuild]_vars

(***************************************************************************)
(* Concurrent questions on a service whose knowledge base has been built.  *)
(***************************************************************************)
FullDirectory ==
    [name \in {HsaFaqTxt, HsaLimitsTxt} |->
        IF name = HsaFaqTxt THEN File(TwoParagraphs) ELSE File(OneParagraph)]

\* the chunks of all files of a directory, in the order they are stored
RECURSIVE AllChunks(_, _)
AllChunks(directory, document_files) ==
    IF document_files = <<>> THEN <<>>
    ELSE ChunksOf(directory, Head(document_files))
         \o AllChunks(directory, Tail(document_files))

\* the vector store after the chunks have been stored with the embeddings
RECURSIVE StoreChunks(_, _, _)
StoreChunks(vector_store_, chunks, embeddings) ==
    IF chunks = <<>> THEN vector_store_
    ELSE StoreChunks(store(vector_store_, Head(chunks).id, Head(embeddings),
                           ChunkMetadata(Head(chunks))),
                     Tail(chunks), Tail(embeddings))

\* knowledge_base_index after a first build of a directory
RECURSIVE IndexDocuments(_, _, _)
IndexDocuments(index, directory, document_files) ==
    IF document_files = <<>> THEN index
    ELSE IndexDocuments(
             SetItem(index, Head(document_files),
                     KnowledgeBaseDocument(
                         Head(document_files),
                         directory[Head(document_files)].content,
                         ChunksOf(directory, Head(document_files)))),
             directory, Tail(document_files))

\* vector stores a first build of the full directory can end with: every
\* chunk near the questions asked, or every chunk far from them
BuiltStores ==
    LET chunks == AllChunks(FullDirectory, DocumentFiles(FullDirectory)) IN
    {StoreChunks(EmptyVectorStore, chunks,
                 [i \in 1..Len(chunks) |-> embedding]) :
        embedding \in ChunkEmbeddings}

InitAnswer ==
    /\ InitEngine /\ InitAudit
    /\ vector_store \in BuiltStores
    /\ last_stored = [chunk_id \in ChunkIds |-> NoCall]
    /\ search = NoSearch
    /\ kb_directory = FullDirectory
    /\ knowledge_base_index =
           IndexDocuments(<<>>, FullDirectory, DocumentFiles(FullDirectory))
    /\ build = IdleBuild
    /\ tasks = [t \in Tasks |-> IdleTask]
    /\ now = 0
    /\ InitMetrics
    /\ frame = NoFrame

NextAnswer ==
    \/ \E t \in Tasks : AnswerQuestion(t)
    \/ Tick

SpecAnswer ==
    InitAnswer /\ [][NextAnswer]_vars

(***************************************************************************)
(* Properties of the RAG service.                                          *)
(***************************************************************************)
\* the chunks a vector store serves: chunk ids with their metadata
IndexedChunks(vector_store_) ==
    {vector_store_.metadata[i] : i \in 1..Len(vector_store_.metadata)}

\* the chunks a complete build of a directory produces
DirectoryChunks(directory) ==
    LET chunks == AllChunks(directory, DocumentFiles(directory)) IN
    {<<chunks[i].id, ChunkMetadata(chunks[i])>> : i \in 1..Len(chunks)}

\* task t searches the vector store in this step
Searches(t) ==
    /\ tasks[t].pc = "embedding"
    /\ tasks'[t].pc \in {"generating", "done"}
    /\ tasks'[t].response # RAGServiceError

\* C13: a search made while a build of the knowledge base is in progress is
\* served from the complete index of before the build or from the complete
\* index of the directory being built, never from a partly populated one
C13_SearchDuringBuildSeesCompleteIndex ==
    [][\A t \in Tasks :
          Searches(t) /\ build.pc = "embedding"
          => IndexedChunks(vector_store)
                 \in {IndexedChunks(build.previous),
                      DirectoryChunks(kb_directory)}]_vars

\* C14: when a build has completed, the vector store holds exactly the
\* chunks of the documents now in the directory; chunks of removed or
\* shortened documents are gone
C14_RebuildReplacesAllChunks ==
    build.pc = "done"
    => IndexedChunks(vector_store) = DirectoryChunks(kb_directory)

\* the question of task t has been embedded and the search of the store
\* with that embedding has no hit at threshold 0.7
ZeroHits(t) ==
    /\ tasks[t].pc = "done"
    /\ tasks[t].question_embedding # <<>>
    /\ similarity_search(vector_store, tasks[t].question_embedding, 5,
                         Q(7, 10)) = <<>>

\* C15: when the retrieval for a question has no hit above the threshold,
\* answer_question returns the fixed fallback answer with confidence 0.0,
\* no citations and no source documents, and has made no generation call
C15_FallbackOnZeroHits ==
    \A t \in Tasks :
        ZeroHits(t)
        => /\ tasks[t].response.status = "returned"
           /\ tasks[t].response.answer = FallbackAnswer
           /\ tasks[t].response.confidence_score = Zero
           /\ tasks[t].response.citations = <<>>
           /\ tasks[t].response.source_documents = <<>>
           /\ tasks[t].llm_calls = 0

C15_Witness ==
    \E t \in Tasks :
        /\ ZeroHits(t)
        /\ tasks[t].response.status = "returned"
        /\ get_chunk_count(vector_store) > 0

\* the answer_question calls that have returned a response
ReturnedResponses ==
    {t \in Tasks : tasks[t].response.status = "returned"}

\* C16: query_count and the length of the confidence history equal the
\* number of responses returned, zero-hit fallback responses included
C16_EveryResponseCounted ==
    /\ query_count = Cardinality(ReturnedResponses)
    /\ Len(confidence_scores) = Cardinality(ReturnedResponses)

\* the answer_question calls that have reached _update_metrics
Recorded ==
    {t \in ReturnedResponses : tasks[t].llm_calls = 1}

RECURSIVE SumOfProcessingTimes(_)
SumOfProcessingTimes(S) ==
    IF S = {} THEN 0
    ELSE LET t == CHOOSE t \in S : TRUE IN
         tasks[t].response.processing_time_ms
         + SumOfProcessingTimes(S \ {t})

\* C17: whatever the interleaving of concurrent answer_question calls, no
\* metric update is lost or torn: query_count is the number of calls that
\* recorded metrics, the confidence history has one entry per such call,
\* and total_response_time is the sum of their processing times
C17_MetricsNotLostNorTorn ==
    /\ query_count = Cardinality(Recorded)
    /\ Len(confidence_scores) = query_count
    /\ total_response_time = SumOfProcessingTimes(Recorded)
    /\ \A t \in Recorded :
           \E i \in 1..Len(confidence_scores) :
               confidence_scores[i] = tasks[t].response.confidence_score

\* all calls have finished, two of them recorded metrics and ran during
\* the same millisecond
C17_Witness ==
    /\ \A t \in Tasks : tasks[t].pc = "done"
    /\ total_response_time > 0
    /\ \E t1, t2 \in Recorded :
           /\ t1 # t2
           /\ tasks[t1].start_time = tasks[t2].start_time
           /\ tasks[t1].response.processing_time_ms > 0
           /\ tasks[t2].response.processing_time_ms > 0

\* the elements of a list without repetition, in order of first appearance
RECURSIVE FirstAppearances(_, _)
FirstAppearances(list, seen) ==
    IF list = <<>> THEN <<>>
    ELSE IF Head(list) \in seen THEN FirstAppearances(Tail(list), seen)
    ELSE <<Head(list)>>
         \o FirstAppearances(Tail(list), seen \cup {Head(list)})

\* C20: in a response that is not the fallback, source_documents lists the
\* document names of the citations, each once, in order of first appearance
C20_SourceDocumentsInCitationOrder ==
    \A t \in Recorded :
        LET citations == tasks[t].response.citations IN
        tasks[t].response.source_documents =
            FirstAppearances(
                [i \in 1..Len(citations) |-> citations[i].document_name],
                {})

(***************************************************************************)
(* Properties of the decision engine.                                      *)
(***************************************************************************)
\* the call evaluated an ApplicationData, not None
Evaluated ==
    pc = "done" /\ application_data.kind = "app"

Returned ==
    Evaluated /\ result.status = "returned"

\* the ID's expiry date parses to a day
ExpiryDay(a) ==
    Strptime(Get(a.government_id_data, "expiry_date").s).day

HasExpiryDay(a) ==
    /\ DictTruthy(a.government_id_data)
    /\ Truthy(Get(a.government_id_data, "expiry_date"))
    /\ Strptime(Get(a.government_id_data, "expiry_date").s).ok

\* the ID's expiry date is strictly before today
ExpiredBefore(a, today_) ==
    HasExpiryDay(a) /\ ExpiryDay(a) < today_

\* the ID's expiry date is today or later
NotExpired(a, today_) ==
    HasExpiryDay(a) /\ ExpiryDay(a) >= today_

\* the ID's expiry date is missing, empty or not a YYYY-MM-DD date
NoUsableExpiry(a) ==
    DictTruthy(a.government_id_data) /\ ~HasExpiryDay(a)

\* the ID carries the declared name and date of birth, each address field
\* it carries is the declared one, and the employer document, if there is
\* one, carries the declared employer
OtherFieldsAgree(a) ==
    LET gov == a.government_id_data
        emp == a.employer_document_data IN
    /\ DictTruthy(gov)
    /\ a.full_name # <<>> /\ gov.items.full_name = Str(a.full_name)
    /\ a.date_of_birth # <<>> /\ gov.items.date_of_birth = Str(a.date_of_birth)
    /\ gov.items.address_street \in {Absent, Str(a.address_street)}
    /\ gov.items.address_city \in {Absent, Str(a.address_city)}
    /\ gov.items.address_state \in {Absent, Str(a.address_state)}
    /\ gov.items.address_zip \in {Absent, Str(a.address_zip)}
    /\ DictTruthy(emp) =>
           a.employer_name # <<>> /\ emp.items.employer_name = Str(a.employer_name)

HasInvalid(validation_results, validation_type) ==
    \E i \in 1..Len(validation_results) :
        /\ validation_results[i].validation_type = validation_type
        /\ ~validation_results[i].is_valid

AnyInvalid(validation_results) ==
    \E i \in 1..Len(validation_results) : ~validation_results[i].is_valid

C2_ExpiredIdRejected ==
    Evaluated /\ ExpiredBefore(application_data, today)
    /\ config.expired_id_auto_reject
        => result.status = "returned" /\ result.decision = REJECT

\* C3: an application whose ID expired strictly before today, evaluated with
\* expired_id_auto_reject on, is returned with risk_score exactly 1.0,
\* whatever else mismatches.
C3_ExpiredIdRiskIsOne ==
    Returned /\ ExpiredBefore(application_data, today)
    /\ config.expired_id_auto_reject
        => result.risk_score = One

\* C4: an application with neither government-ID data nor employer document
\* data yields no risk factors, risk_score 0.0 and MANUAL_REVIEW.
C4_NoDocumentsManualReview ==
    Evaluated /\ ~DictTruthy(application_data.government_id_data)
    /\ ~DictTruthy(application_data.employer_document_data)
        => /\ result.status = "returned"
           /\ RiskFactors(result.validation_results, config) = <<>>
           /\ result.risk_score = Zero
           /\ result.decision = MANUAL_REVIEW

\* C5: under the default configuration an application whose non-expired ID
\* and employer document agree with the declared data on every compared
\* field is approved with risk_score <= auto_approve_threshold.
C5_MatchingDocumentsApproved ==
    Evaluated /\ config = DecisionConfig
    /\ NotExpired(application_data, today)
    /\ OtherFieldsAgree(application_data)
        => /\ result.status = "returned"
           /\ result.decision = APPROVE
           /\ QLe(result.risk_score, config.auto_approve_threshold)

\* an approved application whose ID, expiring today, carries the declared
\* address and whose employer document carries the declared employer
C5_Witness ==
    /\ Evaluated /\ config = DecisionConfig
    /\ HasExpiryDay(application_data) /\ ExpiryDay(application_data) = today
    /\ OtherFieldsAgree(application_data)
    /\ _has_address_data(application_data.government_id_data)
    /\ DictTruthy(application_data.employer_document_data)
    /\ result.status = "returned" /\ result.decision = APPROVE

\* C6: evaluate_application returns a DecisionResult for every well-formed
\* ApplicationData, also when document fields are absent, null, empty or
\* malformed; it never raises.
C6_WellFormedNeverRaises ==
    Evaluated => result.status = "returned"

\* C7: evaluate_application(None) raises DecisionEngineError and no other
\* exception type.
C7_NoneRaisesDecisionEngineError ==
    pc = "done" /\ application_data.kind = "none"
        => result = Raised("DecisionEngineError")

\* C8: under the default configuration an ID whose expiry date is missing,
\* empty or not a YYYY-MM-DD date, with all other fields matching, yields
\* MANUAL_REVIEW with an invalid ID-expiry validation.
C8_UnusableExpiryManualReview ==
    Evaluated /\ config = DecisionConfig
    /\ NoUsableExpiry(application_data)
    /\ OtherFieldsAgree(application_data)
        => /\ result.status = "returned"
           /\ result.decision = MANUAL_REVIEW
           /\ HasInvalid(result.validation_results, ID_EXPIRY)

\* C9: with expired_id_auto_reject off, an expired ID whose other fields all
\* match yields MANUAL_REVIEW with risk_score > 0.5.
C9_ExpiredWithoutAutoRejectHighRisk ==
    Evaluated /\ ~config.expired_id_auto_reject
    /\ ExpiredBefore(application_data, today)
    /\ OtherFieldsAgree(application_data)
        => /\ result.status = "returned"
           /\ result.decision = MANUAL_REVIEW
           /\ QGt(result.risk_score, Q(1, 2))

\* C10: a non-expired ID matching the declared data on every compared field
\* is approved when all three thresholds are 0.0 and auto-reject is off, and
\* sent to manual review when all three are 1.0 and auto-reject is on.
C10_BoundaryConfigurations ==
    Evaluated /\ NotExpired(application_data, today)
    /\ OtherFieldsAgree(application_data)
        => /\ result.status = "returned"
           /\ config = ConfigMin => result.decision = APPROVE
           /\ config = ConfigMax => result.decision = MANUAL_REVIEW

\* the ID-expiry validation among the validation results of an evaluation
IdExpiryValidations(validation_results) ==
    {i \in 1..Len(validation_results) :
        validation_results[i].validation_type = ID_EXPIRY}

\* C11: the ID-expiry boundary is inclusive: for an ID whose expiry date
\* parses, the ID-expiry validation is valid exactly when the expiry date is
\* today or later, and an evaluation of an ID expiring today or later is
\* never answered with REJECT.
C11_ExpiryBoundaryInclusive ==
    Evaluated /\ HasExpiryDay(application_data) =>
        LET check == _check_id_expiry(application_data.government_id_data,
                                      today)
            valid == ExpiryDay(application_data) >= today IN
        /\ check.validation_type = ID_EXPIRY
        /\ check.is_valid <=> valid
        /\ result.status = "returned" =>
               /\ IdExpiryValidations(result.validation_results) # {}
               /\ \A i \in IdExpiryValidations(result.validation_results) :
                      result.validation_results[i].is_valid <=> valid
               /\ valid => result.decision # REJECT

\* an ID expiring today, evaluated with auto-reject on and a mismatching
\* name: the ID-expiry validation is valid and the answer is not REJECT
C11_Witness ==
    /\ Returned /\ config.expired_id_auto_reject
    /\ HasExpiryDay(application_data)
    /\ ExpiryDay(application_data) = today
    /\ today > 0
    /\ \A i \in IdExpiryValidations(result.validation_results) :
           result.validation_results[i].is_valid
    /\ HasInvalid(result.validation_results, NAME_MATCH)
    /\ result.decision = MANUAL_REVIEW

(***************************************************************************)
(* Direct calls of _calculate_risk_score.                                  *)
(***************************************************************************)
\* the kinds of risk factor, one of them unknown to risk_weights, and the
\* magnitudes they are given
RiskTypes ==
    {"expired_id", "name_mismatch", "dob_mismatch", "address_mismatch",
     "employer_mismatch", "other"}

Magnitudes ==
    {Zero, Q(1, 2), One}

RiskFactorLists ==
    UNION {[1..n -> RiskTypes \X Magnitudes] : n \in 0..MaxFactors}

InitRisk ==
    /\ InitEngine /\ InitAudit /\ InitStore /\ InitRag
    /\ frame \in {[pc |-> "called", risk_factors |-> risk_factors] :
                     risk_factors \in RiskFactorLists}

CalculateRiskScore ==
    /\ frame.pc = "called"
    /\ frame' = [pc |-> "returned", risk_factors |-> frame.risk_factors,
                 value |-> _calculate_risk_score(frame.risk_factors)]
    /\ UNCHANGED <<engineVars, auditVars, storeVars, ragVars>>

SpecRisk ==
    InitRisk /\ [][CalculateRiskScore]_vars

\* the sum of f(i) over the indexes 1..n
RECURSIVE QSum(_, _)
QSum(f, n) ==
    IF n = 0 THEN Zero ELSE QAdd(QSum(f, n - 1), f[n])

\* C21: the risk score of a list of factors is the average of the
\* magnitudes weighted with the weights of their kinds (0.5 for an unknown
\* kind), lies in [0,1], and is 0.0 for the empty list
C21_RiskScoreIsWeightedAverage ==
    frame.pc = "returned"
    => LET risk_factors == frame.risk_factors
           n == Len(risk_factors)
           weight == [i \in 1..n |-> risk_weights(risk_factors[i][1])]
           weighted == [i \in 1..n |->
                           QMul(risk_factors[i][2], weight[i])] IN
       /\ n = 0 => frame.value = Zero
       /\ n > 0 => frame.value = QDiv(QSum(weighted, n), QSum(weight, n))
       /\ QGe(frame.value, Zero)
       /\ QLe(frame.value, One)

C21_Witness ==
    /\ frame.pc = "returned"
    /\ Len(frame.risk_factors) = 2
    /\ frame.risk_factors[1] = <<"name_mismatch", Q(1, 2)>>
    /\ frame.risk_factors[2] = <<"other", One>>
    /\ frame.value = Q(9, 13)

(***************************************************************************)
(* Two applications evaluated under one configuration.                     *)
(***************************************************************************)
\* applications whose ID is not expired and differs from the declared data
\* in name, date of birth and street
ComparedApplications ==
    [kind : {"app"}, application_id : {"app-1"},
     full_name : {JohnDoe}, date_of_birth : {Dob1990},
     address_street : {MainSt}, address_city : {Anytown},
     address_state : {StateCA}, address_zip : {Zip12345},
     employer_name : {AcmeCorporation},
     government_id_data :
         {Dict(items) : items \in
             [document_type : {DocumentType},
              full_name : {Str(JohnDoe), Str(JohnADoe), Str(JaneSmith)},
              date_of_birth : {Str(Dob1990), Str(Dob1985)},
              expiry_date : {Str(IsoOf(MaxDay))},
              address_street : {Str(MainSt), Str(OakAve)},
              address_city : {Str(Anytown)},
              address_state : {Str(StateCA)},
              address_zip : {Str(Zip12345)}]},
     employer_document_data : {NoDict}]

InitCompare ==
    /\ InitEngine /\ InitAudit /\ InitStore /\ InitRag
    /\ frame \in [pc : {"called"}, config : EngineConfigs,
                  first : ComparedApplications,
                  second : ComparedApplications]

\* evaluate_application is called with the first, then the second
EvaluateBoth ==
    /\ frame.pc = "called"
    /\ frame' = [pc |-> "returned", config |-> frame.config,
                 first |-> frame.first, second |-> frame.second,
                 first_result |->
                     evaluate_application(frame.first, frame.config, 0),
                 second_result |->
                     evaluate_application(frame.second, frame.config, 0)]
    /\ UNCHANGED <<engineVars, auditVars, storeVars, ragVars>>

SpecCompare ==
    InitCompare /\ [][EvaluateBoth]_vars

\* the failed validations of a result, with their confidences
FailedValidations(result_) ==
    {<<result_.validation_results[i].validation_type,
       result_.validation_results[i].confidence>> :
        i \in {j \in 1..Len(result_.validation_results) :
                  ~result_.validation_results[j].is_valid}}

\* C22: of two applications evaluated under the same configuration, the one
\* that has every failed validation of the other, with the same
\* confidences, and at least one more, has a risk score that is not lower
C22_RiskAccumulates ==
    /\ frame.pc = "returned"
    /\ frame.first_result.status = "returned"
    /\ frame.second_result.status = "returned"
    /\ FailedValidations(frame.first_result)
           \subseteq FailedValidations(frame.second_result)
    /\ FailedValidations(frame.first_result)
           # FailedValidations(frame.second_result)
    => QGe(frame.second_result.risk_score, frame.first_result.risk_score)

(***************************************************************************)
(* Direct calls of _validate_name_match, in both orders of the names.      *)
(***************************************************************************)
DoeJohn ==
    <<"D", "o", "e", ",", " ", "J", "o", "h", "n">>

\* the names compared: missing, empty, blank, and four real ones
Names ==
    {None, Str(<<>>), Str(<<" ">>), Str(JohnDoe), Str(JohnADoe),
     Str(DoeJohn), Str(JaneSmith)}

NameThresholds ==
    ThresholdValues \cup {Q(85, 100)}

InitNameMatch ==
    /\ InitEngine /\ InitAudit /\ InitStore /\ InitRag
    /\ frame \in [pc : {"called"}, app_name : Names, doc_name : Names,
                  name_match_threshold : NameThresholds]

\* the configuration of the engine the method is called on
NameMatchConfig ==
    [DecisionConfig EXCEPT
         !.name_match_threshold = frame.name_match_threshold]

\* _validate_name_match(app_name, doc_name)
ValidateNameMatch ==
    /\ frame.pc = "called"
    /\ frame' = [pc |-> "returned", app_name |-> frame.app_name,
                 doc_name |-> frame.doc_name,
                 name_match_threshold |-> frame.name_match_threshold,
                 value |-> _validate_name_match(frame.app_name,
                                                frame.doc_name,
                                                NameMatchConfig)]
    /\ UNCHANGED <<engineVars, auditVars, storeVars, ragVars>>

\* _validate_name_match(doc_name, app_name), on the same engine
ValidateNameMatchSwapped ==
    /\ frame.pc = "returned"
    /\ frame' = [pc |-> "swapped", app_name |-> frame.app_name,
                 doc_name |-> frame.doc_name,
                 name_match_threshold |-> frame.name_match_threshold,
                 value |-> frame.value,
                 swapped |-> _validate_name_match(frame.doc_name,
                                                  frame.app_name,
                                                  NameMatchConfig)]
    /\ UNCHANGED <<engineVars, auditVars, storeVars, ragVars>>

NextNameMatch ==
    ValidateNameMatch \/ ValidateNameMatchSwapped

SpecNameMatch ==
    InitNameMatch /\ [][NextNameMatch]_vars

\* the words of a name that is present, after cleaning
NameWords(name) ==
    Words(CleanName(name.s))

\* one name's set of words is a proper subset of the other's
ProperSubsetNames ==
    /\ Truthy(frame.app_name) /\ Truthy(frame.doc_name)
    /\ \/ /\ NameWords(frame.app_name) \subseteq NameWords(frame.doc_name)
          /\ NameWords(frame.app_name) # NameWords(frame.doc_name)
       \/ /\ NameWords(frame.doc_name) \subseteq NameWords(frame.app_name)
          /\ NameWords(frame.app_name) # NameWords(frame.doc_name)

\* C23: matching two names gives the same confidence and the same is_valid
\* in both orders, and 0.85 in both orders when the words of one name are a
\* proper subset of the words of the other
C23_NameMatchSymmetric ==
    frame.pc = "swapped"
    => /\ frame.value.confidence = frame.swapped.confidence
       /\ frame.value.is_valid = frame.swapped.is_valid
       /\ ProperSubsetNames
          => /\ frame.value.confidence = Q(85, 100)
             /\ frame.swapped.confidence = Q(85, 100)

C23_Witness ==
    /\ frame.pc = "swapped"
    /\ frame.app_name = Str(JohnADoe)
    /\ frame.doc_name = Str(JohnDoe)
    /\ frame.value.confidence = Q(85, 100)
    /\ frame.swapped.confidence = Q(85, 100)

\* C24: the confidence of the name validation lies in [0,1], and is_valid
\* holds exactly when the confidence reaches name_match_threshold, missing
\* and empty names included
C24_NameValidityFromThreshold ==
    frame.pc = "returned"
    => /\ QGe(frame.value.confidence, Zero)
       /\ QLe(frame.value.confidence, One)
       /\ frame.value.is_valid
          <=> QGe(frame.value.confidence, frame.name_match_threshold)

(***************************************************************************)
(* Direct calls of DocumentChunker.chunk_document.                         *)
(***************************************************************************)
\* the documents: every text of letters, spaces and newlines up to MaxText
Texts ==
    UNION {[1..n -> {"a", " ", "\n"}] : n \in 0..MaxText}

InitChunk ==
    /\ InitEngine /\ InitAudit /\ InitStore /\ InitRag
    /\ frame \in [pc : {"called"}, text : Texts]

\* DocumentChunker(ChunkSize, Overlap).chunk_document(text, "test.txt")
ChunkDocument ==
    /\ frame.pc = "called"
    /\ frame' = [pc |-> "returned", text |-> frame.text,
                 value |-> chunk_document(frame.text, TestTxt, ChunkSize,
                                          Overlap)]
    /\ UNCHANGED <<engineVars, auditVars, storeVars, ragVars>>

SpecChunk ==
    InitChunk /\ [][ChunkDocument]_vars

\* C25: every chunk chunk_document returns has a char_count equal to the
\* length of its text
C25_CharCountIsTextLength ==
    frame.pc = "returned"
    => \A i \in 1..Len(frame.value) :
           frame.value[i].char_count = Len(frame.value[i].text)

\* C26: every chunk chunk_document returns has a text of at most
\* chunk_size + overlap characters, and the chunks are numbered 0..n-1 in
\* the order they are returned
C26_ChunkLengthAndIndexes ==
    frame.pc = "returned"
    => \A i \in 1..Len(frame.value) :
           /\ Len(frame.value[i].text) <= ChunkSize + Overlap
           /\ frame.value[i].chunk_index = i - 1

(***************************************************************************)
(* Direct calls of RAGService._create_excerpt.                             *)
(***************************************************************************)
\* a sentence of n characters that starts with the word "hsa"
Sentence(n) ==
    <<"h", "s", "a", " ">> \o [i \in 1..(n - 4) |-> "x"]

\* chunk texts: one sentence of 18 to MaxExcerpt characters, on its own,
\* closed by a full stop, or followed by a second sentence
ExcerptTexts ==
    UNION {{Sentence(n), Sentence(n) \o <<".">>,
            Sentence(n) \o <<".", " ">> \o Sentence(20) \o <<".">>} :
              n \in 18..MaxExcerpt}

\* a question that shares a word with the sentences, and one that does not
ExcerptQuestions ==
    {<<"H", "S", "A", " ", "l", "i", "m", "i", "t", "s">>,
     <<"t", "a", "x", "e", "s", "?">>}

InitExcerpt ==
    /\ InitEngine /\ InitAudit /\ InitStore /\ InitRag
    /\ frame \in [pc : {"called"}, text : ExcerptTexts,
                  question : ExcerptQuestions, max_length : 19..MaxExcerpt]

\* _create_excerpt(text, question, max_length)
CreateExcerpt ==
    /\ frame.pc = "called"
    /\ frame' = [pc |-> "returned", text |-> frame.text,
                 question |-> frame.question,
                 max_length |-> frame.max_length,
                 value |-> _create_excerpt(frame.text, frame.question,
                                           frame.max_length)]
    /\ UNCHANGED <<engineVars, auditVars, storeVars, ragVars>>

SpecExcerpt ==
    InitExcerpt /\ [][CreateExcerpt]_vars

\* C27: the excerpt _create_excerpt returns is at most max_length
\* characters long
C27_ExcerptWithinMaxLength ==
    frame.pc = "returned" => Len(frame.value) <= frame.max_length

(***************************************************************************)
(* The validations an evaluation collects, and what an APPROVE implies.    *)
(***************************************************************************)
\* how many validations of one type the validation results hold
CountOfType(validation_results, validation_type) ==
    Cardinality({i \in 1..Len(validation_results) :
                    validation_results[i].validation_type = validation_type})

\* the ID data is a dict with at least one key, and one of its address
\* fields is bound to a non-empty string
HasNonEmptyAddressField(a) ==
    /\ DictTruthy(a.government_id_data)
    /\ \E field \in {"address_street", "address_city", "address_state",
                     "address_zip"} :
           LET v == a.government_id_data.items[field] IN
           v.kind = "str" /\ v.s # <<>>

\* C28: the validation results of an evaluation that returns hold exactly
\* one ID-expiry, one name-match and one date-of-birth validation when the
\* government ID data is present (a dict with at least one key) and none of
\* them otherwise, one address validation when the ID data has a non-empty
\* address field and none otherwise, one employer validation when the
\* employer document data is present and none otherwise, and nothing else
C28_ValidationsCollected ==
    Returned =>
        LET vr == result.validation_results
            gov == IF DictTruthy(application_data.government_id_data)
                   THEN 1 ELSE 0
            addr == IF HasNonEmptyAddressField(application_data)
                    THEN 1 ELSE 0
            emp == IF DictTruthy(application_data.employer_document_data)
                   THEN 1 ELSE 0 IN
        /\ CountOfType(vr, ID_EXPIRY) = gov
        /\ CountOfType(vr, NAME_MATCH) = gov
        /\ CountOfType(vr, DOB_MATCH) = gov
        /\ CountOfType(vr, ADDRESS_MATCH) = addr
        /\ CountOfType(vr, EMPLOYER_MATCH) = emp
        /\ Len(vr) = 3 * gov + addr + emp

\* an ID without any address field evaluated together with an employer
\* document: four validations, none of them of the address
C28_Witness ==
    /\ Returned
    /\ DictTruthy(application_data.government_id_data)
    /\ ~HasNonEmptyAddressField(application_data)
    /\ DictTruthy(application_data.employer_document_data)
    /\ Len(result.validation_results) = 4
    /\ CountOfType(result.validation_results, ADDRESS_MATCH) = 0

\* every validation of the validation results is valid
AllValidationsValid(validation_results) ==
    \A i \in 1..Len(validation_results) : validation_results[i].is_valid

\* C29: an evaluation answered with APPROVE has only valid validations and
\* a risk_score of exactly 0.0; a risk_score above 0 comes with at least one
\* invalid validation; and no evaluation has all validations valid with a
\* risk_score strictly between auto_approve_threshold and
\* manual_review_threshold, the case the last return of _make_decision is
\* left with
C29_ApproveMeansNoRisk ==
    Returned =>
        LET vr == result.validation_results IN
        /\ result.decision = APPROVE =>
               AllValidationsValid(vr) /\ result.risk_score = Zero
        /\ QGt(result.risk_score, Zero) => ~AllValidationsValid(vr)
        /\ ~ /\ AllValidationsValid(vr)
             /\ QGt(result.risk_score, config.auto_approve_threshold)
             /\ QLt(result.risk_score, config.manual_review_threshold)

\* an ID whose name is the declared name without the middle initial: the
\* name validation is valid with confidence 0.85, and the evaluation is
\* answered with APPROVE at risk 0.0
C29_Witness ==
    /\ Returned
    /\ result.decision = APPROVE
    /\ result.risk_score = Zero
    /\ \E i \in 1..Len(result.validation_results) :
           /\ result.validation_results[i].validation_type = NAME_MATCH
           /\ result.validation_results[i].is_valid
           /\ result.validation_results[i].confidence = Q(85, 100)

(***************************************************************************)
(* Failures of the external calls of answer_question.                      *)
(***************************************************************************)
\* C30: a step in which an answer_question call ends with RAGServiceError
\* leaves query_count, total_response_time and confidence_scores as they
\* are, and the call has made one embedding call and, when it is the answer
\* generation that failed, one generation call, none otherwise; the metrics
\* change only in a step that returns a generated response
C30_FailureRaisesOnceMetricsKept ==
    [][(\A t \in Tasks :
            (/\ tasks[t].pc # "done"
             /\ tasks'[t].pc = "done"
             /\ tasks'[t].response = RAGServiceError)
            => (/\ UNCHANGED metricVars
                /\ tasks'[t].embedding_calls = 1
                /\ tasks'[t].llm_calls =
                       IF tasks[t].pc = "generating" THEN 1 ELSE 0))
       /\ ((metricVars' # metricVars)
           => (\E t \in Tasks :
                   /\ tasks[t].pc = "generating"
                   /\ tasks'[t].pc = "done"
                   /\ tasks'[t].response # RAGServiceError))]_vars

\* one call has failed in its embedding call and another in its answer
\* generation, each after one attempt, and no query has been counted
C30_Witness ==
    \E t, u \in Tasks :
        /\ tasks[t].pc = "done" /\ tasks[t].response = RAGServiceError
        /\ tasks[t].embedding_calls = 1 /\ tasks[t].llm_calls = 0
        /\ tasks[t].question_embedding = <<>>
        /\ tasks[u].pc = "done" /\ tasks[u].response = RAGServiceError
        /\ tasks[u].embedding_calls = 1 /\ tasks[u].llm_calls = 1
        /\ query_count = 0
        /\ total_response_time = 0
        /\ confidence_scores = <<>>

=============================================================================
